---------------------------- MODULE Spec2Model ----------------------------
(***************************************************************************)
(* Front Light Management (FLM) safety control plane.                      *)
(*                                                                         *)
(* Each software component keeps one state record and a millisecond        *)
(* counter; a main function is one atomic step that transforms the record. *)
(* The helper operators below carry the names of the C functions they are  *)
(* translated from and take/return the component record, so that a main    *)
(* function is the composition of its helpers in the order of the source.  *)
(***************************************************************************)
EXTENDS Integers, Sequences, FiniteSets, TLC

VARIABLES
    FLM_State,                     \* FLM_Application.cpp: static FLM_State
    FLM_SystemTime,                \* FLM_Application.cpp: static FLM_SystemTime
    FLM_ExternalSafeStateTrigger,  \* FLM_Application.cpp: static trigger flag
    FLM_SafeStateReason,           \* FLM_Application.cpp: static reason
    SafetyMonitor_State,           \* SafetyMonitor.cpp: static SafetyMonitor_State
    SafetyMonitor_SystemTime,      \* SafetyMonitor.cpp: static SafetyMonitor_SystemTime
    SafetyMonitor_SimWdgmStatus,   \* SafetyMonitor.cpp: simulated WdgM status
    SafetyMonitor_SimWdgmEnabled,  \* SafetyMonitor.cpp: simulation enabled
    published,                     \* what the getters of the monitored
                                   \* components return to the aggregator
    faultSince,                    \* history: time of the aggregator tick at
                                   \* which F rose from 0 and stayed above
                                   \* since; -1 when F was 0 at the last tick
    nonValidSince,                 \* history: time of the first of the
                                   \* aggregator ticks in a row that observed
                                   \* the E2E supervisor different from Valid;
                                   \* -1 when the last tick observed Valid
    Headlight_State,               \* Headlight.cpp: static Headlight_State
    Headlight_SystemTime,          \* Headlight.cpp: static Headlight_SystemTime
    Headlight_SimCurrent,          \* Headlight.cpp: simulated feedback current
    Headlight_SimCurrentEnabled,   \* Headlight.cpp: simulation enabled
    Dio_Levels,                    \* Dio: levels of the two beam channels
    shortConfirmed,                \* history: a Short fault has been confirmed
    lowRun,                        \* history: evaluated low-current observations in a row
                                   \* since Headlight_Init
    LightRequest_State,            \* LightRequest.cpp: static LightRequest_State
    LightRequest_SystemTime,       \* LightRequest.cpp: static LightRequest_SystemTime
    LightRequest_SimAdcValue,      \* LightRequest.cpp: simulated ADC value
    LightRequest_SimAdcEnabled,    \* LightRequest.cpp: simulation enabled
    lrSteps,                       \* history: calls of
                                   \* LightRequest_SimSetAdcValue so far
    heldTicks,                     \* history: sensor ticks run with the
                                   \* injected value since it changed last
    stepStable,                    \* history: the last change of the injected
                                   \* value was a step larger than the rate
                                   \* limit after 10 or more ticks of a
                                   \* constant value
    protectState,                  \* test_E2E.cpp fixture: protector state
    checkState,                    \* test_E2E.cpp fixture: checker state
    frameData,                     \* the frame protected and checked last
    framesChecked,                 \* history: frames checked since the
                                   \* checker was initialised
    inOrder,                       \* history: all of them came from the
                                   \* running protector state
    forged,                        \* history: frames with a chosen counter
    lastCall,                      \* history: arguments and results of the
                                   \* last call of E2E_P01Protect or
                                   \* E2E_P01Check made with arbitrary
                                   \* arguments
    degradedSince,                 \* history: time of the controller tick
                                   \* that entered Degraded last, -1 if none
    invalidRun,                    \* history: consecutive controller ticks
                                   \* that started in Normal and sampled an
                                   \* invalid input
    SwitchEvent_State,             \* SwitchEvent.cpp: static SwitchEvent_State
    SwitchEvent_SystemTime,        \* SwitchEvent.cpp: static SwitchEvent_SystemTime
    senderState,                   \* protector state of the sending ECU
    fed,                           \* history: the last two statuses fed to
                                   \* the E2E supervisor of the SwitchReceiver
    pendingFresh,                  \* history: the pending frame is a new,
                                   \* unaltered frame of the sender with a
                                   \* command code <= 3
    idleTicks,                     \* history: consecutive receiver ticks that
                                   \* ran without a pending frame
    goodTicks,                     \* history: consecutive receiver ticks that
                                   \* ran with such a fresh frame pending
    System_TickMs,                 \* main.cpp: static System_TickMs
    sysPc,                         \* position inside the iteration of
                                   \* System_RunScheduler
    Com_IpduData,                  \* Com.cpp: Com_IpduData of the light
                                   \* switch PDU (data, length, newData)
    Adc_SimValues,                 \* Adc.cpp: Adc_SimValues of the ambient
                                   \* and the current channel
    simSender,                     \* the sending ECU: whether it sends a
                                   \* frame every 10 ms, and which command
    simPhase,                      \* the surroundings (sender, ambient
                                   \* light): "initial" as System_Init left
                                   \* them, "disturbed" after their change,
                                   \* "restored" once back to the initial
                                   \* ones
    delivered,                     \* history: the frame handed to
                                   \* Com_RxIndication in this iteration,
                                   \* <<>> if none
    tickStart,                     \* history: what the getters returned when
                                   \* this iteration started
    op                             \* name of the operation executed last

flmVars == <<FLM_State, FLM_SystemTime, FLM_ExternalSafeStateTrigger,
             FLM_SafeStateReason, degradedSince, invalidRun>>

smVars == <<SafetyMonitor_State, SafetyMonitor_SystemTime,
            SafetyMonitor_SimWdgmStatus, SafetyMonitor_SimWdgmEnabled,
            published, faultSince, nonValidSince>>

hlVars == <<Headlight_State, Headlight_SystemTime, Headlight_SimCurrent,
            Headlight_SimCurrentEnabled, Dio_Levels, shortConfirmed,
            lowRun>>

lrVars == <<LightRequest_State, LightRequest_SystemTime,
            LightRequest_SimAdcValue, LightRequest_SimAdcEnabled, lrSteps,
            heldTicks, stepStable>>

e2eVars == <<protectState, checkState, frameData, framesChecked, inOrder,
             forged, lastCall>>

swVars == <<SwitchEvent_State, SwitchEvent_SystemTime, senderState, fed,
            pendingFresh, idleTicks, goodTicks>>

sysVars == <<System_TickMs, sysPc, Com_IpduData, Adc_SimValues, simSender,
             simPhase, delivered, tickStart>>

vars == <<flmVars, smVars, hlVars, lrVars, e2eVars, swVars, sysVars, op>>

(***************************************************************************)
(* Integer widths.  The millisecond counters are uint32_t and only ever    *)
(* grow; every stored time stamp is an earlier value of the same counter,  *)
(* so within the explored horizon (far below 2^32 ms) no subtraction       *)
(* borrows and no addition wraps.                                          *)
(***************************************************************************)
\* uint32_t subtraction a - b, for a >= b
Sub32(a, b) == a - b

\* uint32_t addition a + b, below the wrap
Add32(a, b) == a + b

(***************************************************************************)
(* Configuration (FLM_Config.h)                                            *)
(***************************************************************************)
FLM_MAIN_FUNCTION_PERIOD_MS == 10
FLM_FTTI_MS == 200
FLM_SAFE_STATE_TRANSITION_MS == 100
FLM_SAFETY_MONITOR_PERIOD_MS == 5
FLM_AMBIENT_THRESHOLD_ON == 800
FLM_AMBIENT_THRESHOLD_OFF == 1000
FLM_AMBIENT_LIGHT_PERIOD_MS == 20
FLM_AMBIENT_RATE_LIMIT == 500
FLM_AMBIENT_OPEN_CIRCUIT == 100
FLM_AMBIENT_SHORT_CIRCUIT == 3995
FLM_ADC_SAMPLES == 4
FLM_MAX_CONSECUTIVE_ERRORS == 3
FLM_HEADLIGHT_FAULT_DETECT_MS == 20
FLM_HEADLIGHT_MIN_CURRENT_MA == 100
FLM_HEADLIGHT_MAX_CURRENT_MA == 15000
FLM_HEADLIGHT_OPEN_LOAD_MA == 50
FLM_HEADLIGHT_CURRENT_FACTOR == 10

\* Headlight.h
HEADLIGHT_FAULT_CONFIRM_CYCLES ==
    FLM_HEADLIGHT_FAULT_DETECT_MS \div FLM_MAIN_FUNCTION_PERIOD_MS

\* LightRequest.h, Rte_LightRequest.h
LIGHTREQUEST_RATE_CHECK_CYCLES == 5
LIGHTREQUEST_PLAUSIBILITY_DEBOUNCE == 3
LIGHTREQUEST_ADC_BUFFER_SIZE == 8

\* Rte_SafetyMonitor.h
SAFETYMONITOR_FTTI_MS == 200
SAFETYMONITOR_E2E_TIMEOUT_MS == 100
SAFETYMONITOR_MAX_FAULT_COUNT == 3
SAFETYMONITOR_DAY_THRESHOLD == 1500

(***************************************************************************)
(* Enumerations (ComStack_Types.h, Rte_Type.h)                             *)
(***************************************************************************)
LIGHT_SWITCH_OFF == 0
LIGHT_SWITCH_LOW_BEAM == 1
LIGHT_SWITCH_HIGH_BEAM == 2
LIGHT_SWITCH_AUTO == 3

FLM_StateType == {"INIT", "NORMAL", "DEGRADED", "SAFE"}
HeadlightCommand == {"OFF", "LOW_BEAM", "HIGH_BEAM"}
SafeStateReason == {"NONE", "E2E_FAILURE", "WDGM_FAILURE", "MULTI_FAULT",
                    "TIMEOUT", "MANUAL"}

SafetyStatusType == {"OK", "WARNING", "DEGRADED", "SAFE_STATE"}
WdgM_GlobalStatusType == {"OK", "FAILED", "EXPIRED", "STOPPED", "DEACTIVATED"}
HeadlightFaultStatus == {"NONE", "OPEN_LOAD", "SHORT", "OVERCURRENT"}
E2E_SMStateType == {"VALID", "DEINIT", "NODATA", "INIT", "INVALID"}
SignalStatus == {"VALID", "INVALID", "TIMEOUT", "OPEN_CIRCUIT",
                 "SHORT_CIRCUIT", "PLAUSIBILITY"}

(***************************************************************************)
(* Bounds of the exploration                                               *)
(***************************************************************************)
\* FLM ticks explored (Degraded is entered at the 4th tick at the earliest
\* and times out 11 ticks later)
MaxFlmTicks == 17

\* Aggregator ticks explored (the FTTI is 40 ticks of 5 ms)
MaxSmTicks == 44

\* The surroundings of the aggregator may change before each of the first
\* SmFreeTicks ticks, and afterwards every SmEnvPeriodTicks ticks
SmFreeTicks == 3
SmEnvPeriodTicks == 25

\* The simulated watchdog status may in addition change before the tick
\* number SmWdgmTick (at 100 ms, the E2E timeout)
SmWdgmTick == 20

\* OutputMonitor ticks explored
MaxHlTicks == 6

\* AmbientSensor ticks explored, and changes of the injected ADC value
MaxLrTicks == 30
MaxLrSteps == 3

\* The AmbientSensor may be re-initialised after each of its first
\* LrReinitTicks ticks
LrReinitTicks == 2

\* Frames protected and checked in a row (the sender counter wraps after 15)
MaxE2eFrames == 18

\* Calls of the E2E library made with arbitrary arguments
MaxE2eCalls == 3

\* Frames whose counter the sender chooses freely
MaxForgedFrames == 2

\* SwitchReceiver ticks explored
MaxSwTicks == 8

\* Recovery of the SwitchReceiver: ticks with arbitrary traffic, followed by
\* ticks that each find a fresh frame of a correct sender pending
MaxSwBadTicks == 6
MaxSwGoodTicks == 34

\* Ticks of renewed correct traffic after which the report is valid: at most
\* 13 frames until the sender counter follows the last valid counter again,
\* then MinOkStateInvalid (3) positive verdicts
RecoveryTicks == 16

\* Iterations of System_RunScheduler explored, counted in 10 ms ticks
MaxSysTicks == 50

\* The surroundings of the system (sending ECU, ambient light) may change
\* once, before a 10 ms tick whose number is a multiple of SysEnvPeriodTicks
SysEnvPeriodTicks == 10

(***************************************************************************)
(* Inputs sampled by the FlmController                                     *)
(***************************************************************************)
\* Switch reports SwitchEvent_GetLightRequest can publish, with the E2E
\* status and the timeout flag that accompany them.
FlmSwitchInputs ==
    { [ls |-> [command |-> c, isValid |-> v,
               e2eStatus |-> IF v THEN "OK" ELSE "NONEWDATA"],
       e2e |-> IF v THEN "OK" ELSE "NONEWDATA",
       timeout |-> ~v]
      : c \in {LIGHT_SWITCH_OFF, LIGHT_SWITCH_LOW_BEAM,
               LIGHT_SWITCH_HIGH_BEAM, LIGHT_SWITCH_AUTO},
        v \in BOOLEAN }

\* Ambient readings LightRequest_GetAmbientLight can publish, around the two
\* hysteresis thresholds, and an invalid (open circuit) one.
FlmAmbientInputs ==
    { [al |-> [adcValue |-> a, luxValue |-> a \div 4, isValid |-> TRUE],
       status |-> "VALID"] : a \in {799, 800, 1000, 1001} }
    \cup { [al |-> [adcValue |-> 50, luxValue |-> 12, isValid |-> FALSE],
            status |-> "OPEN_CIRCUIT"] }

(***************************************************************************)
(* FLM_Application.cpp                                                     *)
(***************************************************************************)
\* FLM_Init: the state record after initialisation (memset 0 + assignments)
FLM_InitState ==
    [ isInitialized |-> TRUE,
      currentState |-> "INIT",
      previousState |-> "INIT",
      lightSwitch |-> [command |-> LIGHT_SWITCH_OFF, isValid |-> FALSE,
                       e2eStatus |-> "OK"],
      ambientLight |-> [adcValue |-> 0, luxValue |-> 0, isValid |-> FALSE],
      switchSignalStatus |-> "INVALID",
      ambientSignalStatus |-> "INVALID",
      e2eStatus |-> "OK",
      headlightCommand |-> "OFF",
      lightsCurrentlyOn |-> FALSE,
      hysteresisActive |-> FALSE,
      consecutiveErrors |-> 0,
      e2eErrorStartTime |-> 0,
      e2eTimeoutActive |-> FALSE,
      degradedEntryTime |-> 0,
      currentTime |-> 0 ]

FLM_ReadInputs(st, sw, amb) ==
    [st EXCEPT !.lightSwitch = sw.ls,
               !.e2eStatus = sw.e2e,
               !.switchSignalStatus =
                   IF sw.ls.isValid THEN "VALID"
                   ELSE IF sw.timeout THEN "TIMEOUT" ELSE "INVALID",
               !.ambientLight = amb.al,
               !.ambientSignalStatus = amb.status]

FLM_AreAllInputsValid(st) ==
    st.lightSwitch.isValid /\ st.ambientLight.isValid

FLM_IsAnyInputInvalid(st) ==
    (~st.lightSwitch.isValid) \/ (~st.ambientLight.isValid)

FLM_IsCriticalFault(st, trig) ==
    IF st.e2eTimeoutActive THEN TRUE
    ELSE IF trig THEN TRUE
    ELSE FALSE

\* Variant of FLM_StateInit that leaves Init as soon as the switch report
\* alone is valid
FLM_StateInit_SwitchOnly(st, trig) ==
    IF trig THEN [st EXCEPT !.currentState = "SAFE"]
    ELSE LET s1 == IF st.lightSwitch.isValid
                   THEN [st EXCEPT !.currentState = "NORMAL",
                                   !.consecutiveErrors = 0]
                   ELSE st
         IN  [s1 EXCEPT !.headlightCommand = "OFF"]

FLM_StateInit(st, trig) ==
    IF trig THEN [st EXCEPT !.currentState = "SAFE"]
    ELSE LET s1 == IF FLM_AreAllInputsValid(st)
                   THEN [st EXCEPT !.currentState = "NORMAL",
                                   !.consecutiveErrors = 0]
                   ELSE st
         IN  [s1 EXCEPT !.headlightCommand = "OFF"]

\* Variant of FLM_StateNormal that keeps the error count over a tick with
\* all inputs valid
FLM_StateNormal_NoReset(st, trig) ==
    IF trig THEN [st EXCEPT !.currentState = "SAFE"]
    ELSE IF FLM_IsCriticalFault(st, trig)
         THEN [st EXCEPT !.currentState = "SAFE"]
    ELSE IF FLM_IsAnyInputInvalid(st)
         THEN LET s1 == [st EXCEPT !.consecutiveErrors = (@ + 1) % 256]
              IN  IF s1.consecutiveErrors >= FLM_MAX_CONSECUTIVE_ERRORS
                  THEN [s1 EXCEPT !.currentState = "DEGRADED",
                                  !.degradedEntryTime = s1.currentTime]
                  ELSE s1
    ELSE st

FLM_StateNormal(st, trig) ==
    IF trig THEN [st EXCEPT !.currentState = "SAFE"]
    ELSE IF FLM_IsCriticalFault(st, trig)
         THEN [st EXCEPT !.currentState = "SAFE"]
    ELSE IF FLM_IsAnyInputInvalid(st)
         THEN LET s1 == [st EXCEPT !.consecutiveErrors = (@ + 1) % 256]
              IN  IF s1.consecutiveErrors >= FLM_MAX_CONSECUTIVE_ERRORS
                  THEN [s1 EXCEPT !.currentState = "DEGRADED",
                                  !.degradedEntryTime = s1.currentTime]
                  ELSE s1
    ELSE [st EXCEPT !.consecutiveErrors = 0]

\* Variant of FLM_StateDegraded that tests recovery before the trigger
FLM_StateDegraded_RecoveryFirst(st, trig) ==
    IF FLM_AreAllInputsValid(st)
    THEN [st EXCEPT !.currentState = "NORMAL", !.consecutiveErrors = 0]
    ELSE IF trig THEN [st EXCEPT !.currentState = "SAFE"]
    ELSE IF Sub32(st.currentTime, st.degradedEntryTime)
              > (FLM_FTTI_MS - FLM_SAFE_STATE_TRANSITION_MS)
         THEN [st EXCEPT !.currentState = "SAFE"]
    ELSE st

\* Variant of FLM_StateDegraded whose timeout fires when the time in
\* Degraded equals FTTI - SafeStateTransitionTime
FLM_StateDegraded_AtDeadline(st, trig) ==
    IF trig THEN [st EXCEPT !.currentState = "SAFE"]
    ELSE IF FLM_AreAllInputsValid(st)
         THEN [st EXCEPT !.currentState = "NORMAL", !.consecutiveErrors = 0]
    ELSE IF FLM_IsCriticalFault(st, trig)
         THEN [st EXCEPT !.currentState = "SAFE"]
    ELSE IF Sub32(st.currentTime, st.degradedEntryTime)
              >= (FLM_FTTI_MS - FLM_SAFE_STATE_TRANSITION_MS)
         THEN [st EXCEPT !.currentState = "SAFE"]
    ELSE st

\* Variant of FLM_StateDegraded that tests the timeout before the recovery
FLM_StateDegraded_TimeoutFirst(st, trig) ==
    IF trig THEN [st EXCEPT !.currentState = "SAFE"]
    ELSE IF Sub32(st.currentTime, st.degradedEntryTime)
              > (FLM_FTTI_MS - FLM_SAFE_STATE_TRANSITION_MS)
         THEN [st EXCEPT !.currentState = "SAFE"]
    ELSE IF FLM_AreAllInputsValid(st)
         THEN [st EXCEPT !.currentState = "NORMAL", !.consecutiveErrors = 0]
    ELSE IF FLM_IsCriticalFault(st, trig)
         THEN [st EXCEPT !.currentState = "SAFE"]
    ELSE st

FLM_StateDegraded(st, trig) ==
    IF trig THEN [st EXCEPT !.currentState = "SAFE"]
    ELSE IF FLM_AreAllInputsValid(st)
         THEN [st EXCEPT !.currentState = "NORMAL", !.consecutiveErrors = 0]
    ELSE IF FLM_IsCriticalFault(st, trig)
         THEN [st EXCEPT !.currentState = "SAFE"]
    ELSE IF Sub32(st.currentTime, st.degradedEntryTime)
              > (FLM_FTTI_MS - FLM_SAFE_STATE_TRANSITION_MS)
         THEN [st EXCEPT !.currentState = "SAFE"]
    ELSE st

\* Variant of FLM_StateSafe that recovers to Normal once all inputs are valid
FLM_StateSafe_Recovering(st) ==
    IF FLM_AreAllInputsValid(st)
    THEN [st EXCEPT !.currentState = "NORMAL", !.consecutiveErrors = 0]
    ELSE [st EXCEPT !.headlightCommand = "LOW_BEAM"]

FLM_StateSafe(st) ==
    IF st.ambientLight.isValid
    THEN IF st.ambientLight.adcValue < FLM_AMBIENT_THRESHOLD_ON
         THEN [st EXCEPT !.headlightCommand = "LOW_BEAM"]
         ELSE [st EXCEPT !.headlightCommand = "OFF"]
    ELSE [st EXCEPT !.headlightCommand = "LOW_BEAM"]

\* The entry time stamp written on a state change (stateEntryTime) is read by
\* no operation and is left out of the record.
FLM_ProcessStateMachine(st, trig) ==
    LET s0 == [st EXCEPT !.previousState = st.currentState]
        s1 == CASE s0.currentState = "INIT" -> FLM_StateInit(s0, trig)
                [] s0.currentState = "NORMAL" -> FLM_StateNormal(s0, trig)
                [] s0.currentState = "DEGRADED" -> FLM_StateDegraded(s0, trig)
                [] s0.currentState = "SAFE" -> FLM_StateSafe(s0)
                [] OTHER -> [s0 EXCEPT !.currentState = "SAFE"]
    IN  s1

\* Variant of FLM_ApplyAutoMode with the on-threshold alone, no hysteresis
FLM_ApplyAutoMode_NoHysteresis(st) ==
    IF ~st.ambientLight.isValid THEN st
    ELSE IF st.ambientLight.adcValue < FLM_AMBIENT_THRESHOLD_ON
         THEN [st EXCEPT !.headlightCommand = "LOW_BEAM",
                         !.lightsCurrentlyOn = TRUE,
                         !.hysteresisActive = TRUE]
         ELSE [st EXCEPT !.headlightCommand = "OFF",
                         !.lightsCurrentlyOn = FALSE,
                         !.hysteresisActive = FALSE]

FLM_ApplyAutoMode(st) ==
    IF ~st.ambientLight.isValid THEN st
    ELSE IF st.lightsCurrentlyOn
         THEN IF st.ambientLight.adcValue > FLM_AMBIENT_THRESHOLD_OFF
              THEN [st EXCEPT !.headlightCommand = "OFF",
                              !.lightsCurrentlyOn = FALSE,
                              !.hysteresisActive = FALSE]
              ELSE [st EXCEPT !.headlightCommand = "LOW_BEAM",
                              !.hysteresisActive = TRUE]
    ELSE IF st.ambientLight.adcValue < FLM_AMBIENT_THRESHOLD_ON
         THEN [st EXCEPT !.headlightCommand = "LOW_BEAM",
                         !.lightsCurrentlyOn = TRUE,
                         !.hysteresisActive = TRUE]
         ELSE [st EXCEPT !.headlightCommand = "OFF",
                         !.hysteresisActive = FALSE]

FLM_DetermineHeadlightCommand(st) ==
    IF st.currentState = "SAFE" THEN st
    ELSE IF st.currentState = "INIT"
         THEN [st EXCEPT !.headlightCommand = "OFF"]
    ELSE LET c == st.lightSwitch.command
             s1 == CASE c = LIGHT_SWITCH_OFF ->
                          [st EXCEPT !.headlightCommand = "OFF",
                                     !.lightsCurrentlyOn = FALSE]
                     [] c = LIGHT_SWITCH_LOW_BEAM ->
                          [st EXCEPT !.headlightCommand = "LOW_BEAM",
                                     !.lightsCurrentlyOn = TRUE]
                     [] c = LIGHT_SWITCH_HIGH_BEAM ->
                          [st EXCEPT !.headlightCommand = "HIGH_BEAM",
                                     !.lightsCurrentlyOn = TRUE]
                     [] c = LIGHT_SWITCH_AUTO -> FLM_ApplyAutoMode(st)
                     [] OTHER -> st
         IN  IF s1.currentState = "DEGRADED" /\ ~s1.lightSwitch.isValid
             THEN FLM_ApplyAutoMode(s1)
             ELSE s1

\* FLM_MainFunction on the record: st is FLM_State, t FLM_SystemTime, trig
\* the external trigger, sw and amb the values the getters of SwitchEvent
\* and LightRequest return.
FLM_MainFunctionState(st, t, trig, sw, amb) ==
    LET s0 == [st EXCEPT !.currentTime = t]
        s1 == FLM_ReadInputs(s0, sw, amb)
        s2 == FLM_ProcessStateMachine(s1, trig)
    IN  FLM_DetermineHeadlightCommand(s2)

\* History of FLM_State.currentState: the time of the tick that entered
\* Degraded last.
DegradedSinceNext(old, new) ==
    IF new.currentState = "DEGRADED" /\ old.currentState # "DEGRADED"
    THEN new.currentTime
    ELSE degradedSince

\* History of the sampled inputs: consecutive ticks that started in Normal
\* and sampled at least one invalid input.
InvalidRunNext(old, new) ==
    IF old.currentState = "NORMAL"
       /\ (~new.lightSwitch.isValid \/ ~new.ambientLight.isValid)
    THEN IF invalidRun < FLM_MAX_CONSECUTIVE_ERRORS
         THEN invalidRun + 1 ELSE invalidRun
    ELSE 0

FLM_MainFunction(sw, amb) ==
    /\ op' = "FLM_MainFunction"
    /\ IF ~FLM_State.isInitialized
       THEN UNCHANGED flmVars
       ELSE /\ FLM_State' = FLM_MainFunctionState(FLM_State, FLM_SystemTime,
                                FLM_ExternalSafeStateTrigger, sw, amb)
            /\ degradedSince' = DegradedSinceNext(FLM_State, FLM_State')
            /\ invalidRun' = InvalidRunNext(FLM_State, FLM_State')
            /\ FLM_SystemTime' = Add32(FLM_SystemTime, FLM_MAIN_FUNCTION_PERIOD_MS)
            /\ UNCHANGED <<FLM_ExternalSafeStateTrigger, FLM_SafeStateReason>>

FLM_Init ==
    /\ op' = "FLM_Init"
    /\ FLM_State' = FLM_InitState
    /\ FLM_ExternalSafeStateTrigger' = FALSE
    /\ FLM_SafeStateReason' = "NONE"
    /\ degradedSince' = -1
    /\ invalidRun' = 0
    /\ UNCHANGED FLM_SystemTime

FLM_TriggerSafeState(reason) ==
    /\ op' = "FLM_TriggerSafeState"
    /\ FLM_ExternalSafeStateTrigger' = TRUE
    /\ FLM_SafeStateReason' = reason
    /\ UNCHANGED <<FLM_State, FLM_SystemTime, degradedSince, invalidRun>>

(***************************************************************************)
(* SafetyMonitor.cpp                                                       *)
(***************************************************************************)
\* SafetyMonitor_Init: the state record after initialisation
SafetyMonitor_InitState ==
    [ isInitialized |-> TRUE,
      inSafeState |-> FALSE,
      switchEventFault |-> FALSE,
      lightRequestFault |-> FALSE,
      flmFault |-> FALSE,
      headlightFault |-> FALSE,
      wdgmFault |-> FALSE,
      e2eStatus |-> "OK",
      e2eSmStatus |-> "VALID",
      e2eFailureStartTime |-> 0,
      e2eTimeoutActive |-> FALSE,
      headlightStatus |-> "NONE",
      flmState |-> "INIT",
      wdgmGlobalStatus |-> "OK",
      totalFaultCount |-> 0,
      firstFaultTime |-> 0,
      fttiActive |-> FALSE,
      safeStateReason |-> "NONE",
      safeStateEntryTime |-> 0,
      safeStateCommand |-> "OFF",
      lastAmbientLight |-> [adcValue |-> 0, luxValue |-> 0, isValid |-> FALSE],
      isDaytime |-> TRUE,
      globalStatus |-> "OK",
      currentTime |-> 0 ]

\* Variant of SafetyMonitor_TriggerSafeState without the latch guard
SafetyMonitor_TriggerSafeState_Unguarded(st, reason) ==
    [st EXCEPT !.inSafeState = TRUE,
               !.safeStateReason = reason,
               !.safeStateEntryTime = st.currentTime,
               !.globalStatus = "SAFE_STATE"]

\* SafetyMonitor_TriggerSafeState on the record; the call of
\* FLM_TriggerSafeState it makes is SafetyMonitor_PropagateTrigger below.
SafetyMonitor_TriggerSafeState(st, reason) ==
    IF ~st.inSafeState
    THEN [st EXCEPT !.inSafeState = TRUE,
                    !.safeStateReason = reason,
                    !.safeStateEntryTime = st.currentTime,
                    !.globalStatus = "SAFE_STATE"]
    ELSE st

\* pub: the values returned by the getters of SwitchEvent, LightRequest and
\* Headlight; flm: FLM_GetCurrentState(); en, wd: the simulated WdgM status
SafetyMonitor_ReadComponentStatus(st, pub, flm, en, wd) ==
    LET w == IF en THEN wd ELSE "OK"
    IN  [st EXCEPT !.switchEventFault = ~pub.ls.isValid,
                   !.e2eStatus = pub.e2e,
                   !.e2eSmStatus = pub.e2eSm,
                   !.lastAmbientLight = pub.al,
                   !.lightRequestFault = ~pub.al.isValid,
                   !.isDaytime = IF pub.al.isValid
                                 THEN pub.al.adcValue > SAFETYMONITOR_DAY_THRESHOLD
                                 ELSE @,
                   !.flmState = flm,
                   !.flmFault = (flm = "SAFE"),
                   !.headlightStatus = pub.hl,
                   !.headlightFault = (pub.hl # "NONE"),
                   !.wdgmGlobalStatus = w,
                   !.wdgmFault = (w # "OK")]

\* The local faultCount of SafetyMonitor_AggregrateFaults
SafetyMonitor_FaultCount(st) ==
    (IF st.switchEventFault THEN 1 ELSE 0)
    + (IF st.lightRequestFault THEN 1 ELSE 0)
    + (IF st.headlightFault THEN 1 ELSE 0)
    + (IF st.wdgmFault THEN 1 ELSE 0)

\* Variant of SafetyMonitor_AggregrateFaults that stamps the first-fault
\* time again whenever the fault count changes
SafetyMonitor_AggregrateFaults_Restamp(st) ==
    LET faultCount == SafetyMonitor_FaultCount(st)
        s1 == IF faultCount > 0 /\ st.totalFaultCount # faultCount
              THEN [st EXCEPT !.firstFaultTime = st.currentTime,
                              !.fttiActive = TRUE]
              ELSE st
        s2 == IF faultCount = 0 THEN [s1 EXCEPT !.fttiActive = FALSE] ELSE s1
        s3 == [s2 EXCEPT !.totalFaultCount = faultCount]
    IN  IF faultCount >= SAFETYMONITOR_MAX_FAULT_COUNT
        THEN SafetyMonitor_TriggerSafeState(s3, "MULTI_FAULT")
        ELSE s3

SafetyMonitor_AggregrateFaults(st) ==
    LET faultCount == SafetyMonitor_FaultCount(st)
        s1 == IF faultCount > 0 /\ st.totalFaultCount = 0
              THEN [st EXCEPT !.firstFaultTime = st.currentTime,
                              !.fttiActive = TRUE]
              ELSE st
        s2 == IF faultCount = 0 THEN [s1 EXCEPT !.fttiActive = FALSE] ELSE s1
        s3 == [s2 EXCEPT !.totalFaultCount = faultCount]
    IN  IF faultCount >= SAFETYMONITOR_MAX_FAULT_COUNT
        THEN SafetyMonitor_TriggerSafeState(s3, "MULTI_FAULT")
        ELSE s3

\* Variant of SafetyMonitor_CheckE2ETimeout that triggers only after more
\* than the E2E timeout has elapsed
SafetyMonitor_CheckE2ETimeout_Strict(st) ==
    IF st.e2eSmStatus # "VALID"
    THEN IF ~st.e2eTimeoutActive
         THEN [st EXCEPT !.e2eFailureStartTime = st.currentTime,
                         !.e2eTimeoutActive = TRUE]
         ELSE IF Sub32(st.currentTime, st.e2eFailureStartTime)
                   > SAFETYMONITOR_E2E_TIMEOUT_MS
              THEN SafetyMonitor_TriggerSafeState(st, "E2E_FAILURE")
              ELSE st
    ELSE [st EXCEPT !.e2eTimeoutActive = FALSE]

SafetyMonitor_CheckE2ETimeout(st) ==
    IF st.e2eSmStatus # "VALID"
    THEN IF ~st.e2eTimeoutActive
         THEN [st EXCEPT !.e2eFailureStartTime = st.currentTime,
                         !.e2eTimeoutActive = TRUE]
         ELSE IF Sub32(st.currentTime, st.e2eFailureStartTime)
                   >= SAFETYMONITOR_E2E_TIMEOUT_MS
              THEN SafetyMonitor_TriggerSafeState(st, "E2E_FAILURE")
              ELSE st
    ELSE [st EXCEPT !.e2eTimeoutActive = FALSE]

SafetyMonitor_CheckWdgMStatus(st) ==
    IF st.wdgmGlobalStatus = "FAILED" \/ st.wdgmGlobalStatus = "EXPIRED"
    THEN SafetyMonitor_TriggerSafeState(st, "WDGM_FAILURE")
    ELSE st

SafetyMonitor_CheckFTTI(st) ==
    IF ~st.fttiActive THEN st
    ELSE IF Sub32(st.currentTime, st.firstFaultTime) >= SAFETYMONITOR_FTTI_MS
         THEN SafetyMonitor_TriggerSafeState(st, "TIMEOUT")
         ELSE st

SafetyMonitor_UpdateGlobalStatus(st) ==
    IF st.inSafeState THEN [st EXCEPT !.globalStatus = "SAFE_STATE"]
    ELSE IF st.totalFaultCount > 0
         THEN IF st.totalFaultCount >= 2
              THEN [st EXCEPT !.globalStatus = "DEGRADED"]
              ELSE [st EXCEPT !.globalStatus = "WARNING"]
    ELSE [st EXCEPT !.globalStatus = "OK"]

\* Variant of SafetyMonitor_DetermineSafeStateCommand that ignores the
\* day/night classification
SafetyMonitor_DetermineSafeStateCommand_AlwaysOff(st) ==
    [st EXCEPT !.safeStateCommand = "OFF"]

SafetyMonitor_DetermineSafeStateCommand(st) ==
    IF st.isDaytime
    THEN [st EXCEPT !.safeStateCommand = "OFF"]
    ELSE [st EXCEPT !.safeStateCommand = "LOW_BEAM"]

\* Variant of SafetyMonitor_MainFunction that checks the watchdog status
\* before it aggregates the faults
SafetyMonitor_MainFunctionState_WdgMFirst(st, t, pub, flm, en, wd) ==
    LET s0 == [st EXCEPT !.currentTime = t]
        s1 == SafetyMonitor_ReadComponentStatus(s0, pub, flm, en, wd)
        s2 == SafetyMonitor_CheckWdgMStatus(s1)
        s3 == SafetyMonitor_AggregrateFaults(s2)
        s4 == SafetyMonitor_CheckE2ETimeout(s3)
        s5 == SafetyMonitor_CheckFTTI(s4)
        s6 == SafetyMonitor_UpdateGlobalStatus(s5)
    IN  IF s6.inSafeState
        THEN SafetyMonitor_DetermineSafeStateCommand(s6)
        ELSE s6

\* SafetyMonitor_MainFunction on the record; t is SafetyMonitor_SystemTime
SafetyMonitor_MainFunctionState(st, t, pub, flm, en, wd) ==
    LET s0 == [st EXCEPT !.currentTime = t]
        s1 == SafetyMonitor_ReadComponentStatus(s0, pub, flm, en, wd)
        s2 == SafetyMonitor_AggregrateFaults(s1)
        s3 == SafetyMonitor_CheckE2ETimeout(s2)
        s4 == SafetyMonitor_CheckWdgMStatus(s3)
        s5 == SafetyMonitor_CheckFTTI(s4)
        s6 == SafetyMonitor_UpdateGlobalStatus(s5)
    IN  IF s6.inSafeState
        THEN SafetyMonitor_DetermineSafeStateCommand(s6)
        ELSE s6

\* The FLM_TriggerSafeState(reason) call made inside
\* SafetyMonitor_TriggerSafeState: it happens exactly when the latch is set.
SafetyMonitor_PropagateTrigger(old, new) ==
    IF ~old.inSafeState /\ new.inSafeState
    THEN /\ FLM_ExternalSafeStateTrigger' = TRUE
         /\ FLM_SafeStateReason' = new.safeStateReason
    ELSE UNCHANGED <<FLM_ExternalSafeStateTrigger, FLM_SafeStateReason>>

\* History of the fault count: f is the count of the tick executed at time t
FaultSinceNext(f, t) ==
    IF f = 0 THEN -1
    ELSE IF faultSince = -1 THEN t ELSE faultSince

\* History of the supervisor state: e is the one observed by the tick
\* executed at time t
NonValidSinceNext(e, t) ==
    IF e = "VALID" THEN -1
    ELSE IF nonValidSince = -1 THEN t ELSE nonValidSince

\* pub: what the getters of the monitored components return in this tick
SafetyMonitor_MainFunction(pub) ==
    /\ op' = "SafetyMonitor_MainFunction"
    /\ IF ~SafetyMonitor_State.isInitialized
       THEN UNCHANGED <<SafetyMonitor_State, SafetyMonitor_SystemTime,
                        FLM_ExternalSafeStateTrigger, FLM_SafeStateReason,
                        faultSince, nonValidSince>>
       ELSE LET new == SafetyMonitor_MainFunctionState(
                           SafetyMonitor_State, SafetyMonitor_SystemTime,
                           pub, FLM_State.currentState,
                           SafetyMonitor_SimWdgmEnabled,
                           SafetyMonitor_SimWdgmStatus)
            IN  /\ SafetyMonitor_State' = new
                /\ SafetyMonitor_SystemTime' =
                       Add32(SafetyMonitor_SystemTime,
                             FLM_SAFETY_MONITOR_PERIOD_MS)
                /\ SafetyMonitor_PropagateTrigger(SafetyMonitor_State, new)
                /\ faultSince' = FaultSinceNext(new.totalFaultCount,
                                                SafetyMonitor_SystemTime)
                /\ nonValidSince' = NonValidSinceNext(new.e2eSmStatus,
                                                      SafetyMonitor_SystemTime)
    /\ published' = pub
    /\ UNCHANGED <<SafetyMonitor_SimWdgmStatus, SafetyMonitor_SimWdgmEnabled,
                   FLM_State, FLM_SystemTime, degradedSince, invalidRun>>

SafetyMonitor_Init ==
    /\ op' = "SafetyMonitor_Init"
    /\ SafetyMonitor_State' = SafetyMonitor_InitState
    /\ faultSince' = -1
    /\ nonValidSince' = -1
    /\ UNCHANGED <<SafetyMonitor_SystemTime, SafetyMonitor_SimWdgmStatus,
                   SafetyMonitor_SimWdgmEnabled, published, flmVars>>

\* The public SafetyMonitor_TriggerSafeState(reason) called from outside
SafetyMonitor_TriggerSafeState_Call(reason) ==
    /\ op' = "SafetyMonitor_TriggerSafeState"
    /\ LET new == SafetyMonitor_TriggerSafeState(SafetyMonitor_State, reason)
       IN  /\ SafetyMonitor_State' = new
           /\ SafetyMonitor_PropagateTrigger(SafetyMonitor_State, new)
    /\ UNCHANGED <<SafetyMonitor_SystemTime, SafetyMonitor_SimWdgmStatus,
                   SafetyMonitor_SimWdgmEnabled, published, faultSince,
                   nonValidSince, FLM_State, FLM_SystemTime, degradedSince,
                   invalidRun>>

SafetyMonitor_SimSetWdgmStatus(status) ==
    /\ op' = "SafetyMonitor_SimSetWdgmStatus"
    /\ SafetyMonitor_SimWdgmStatus' = status
    /\ SafetyMonitor_SimWdgmEnabled' = TRUE
    /\ UNCHANGED <<SafetyMonitor_State, SafetyMonitor_SystemTime, published,
                   faultSince, nonValidSince, flmVars>>

(***************************************************************************)
(* Headlight.cpp                                                           *)
(***************************************************************************)
\* Headlight_Init: the state record after initialisation
Headlight_InitState ==
    [ isInitialized |-> TRUE,
      currentCommand |-> "OFF",
      requestedCommand |-> "OFF",
      lowBeamOutput |-> FALSE,
      highBeamOutput |-> FALSE,
      feedbackCurrent |-> 0,
      feedbackState |-> FALSE,
      faultStatus |-> "NONE",
      openLoadCounter |-> 0,
      shortCircuitCounter |-> 0,
      faultDetectStartTime |-> 0,
      faultConfirmed |-> FALSE,
      commandChangeTime |-> 0,
      currentTime |-> 0 ]

\* The two DIO channels after Headlight_Init (STD_LOW)
Dio_InitLevels == [lowBeam |-> FALSE, highBeam |-> FALSE]

\* Variant of Headlight_SetOutputs that energises only the high-beam line
\* for HighBeam
Headlight_SetOutputs_HighOnly(h) ==
    LET c == h.st.requestedCommand
        lo == (c = "LOW_BEAM")
        hi == (c = "HIGH_BEAM")
        s1 == [h.st EXCEPT !.lowBeamOutput = lo, !.highBeamOutput = hi]
        s2 == IF s1.requestedCommand # s1.currentCommand
              THEN [s1 EXCEPT !.commandChangeTime = s1.currentTime]
              ELSE s1
    IN  [st |-> s2, dio |-> [lowBeam |-> lo, highBeam |-> hi]]

\* The helpers work on a pair [st |-> Headlight_State, dio |-> channel levels]
Headlight_SetOutputs(h) ==
    LET c == h.st.requestedCommand
        lo == (c = "LOW_BEAM" \/ c = "HIGH_BEAM")
        hi == (c = "HIGH_BEAM")
        s1 == [h.st EXCEPT !.lowBeamOutput = lo, !.highBeamOutput = hi]
        s2 == IF s1.requestedCommand # s1.currentCommand
              THEN [s1 EXCEPT !.commandChangeTime = s1.currentTime]
              ELSE s1
    IN  [st |-> s2, dio |-> [lowBeam |-> lo, highBeam |-> hi]]

\* en, sim: the simulated feedback current; adc: the outcome of the ADC
\* conversion and read, [ok, value]
Headlight_ReadFeedback(h, en, sim, adc) ==
    LET s1 == IF en THEN [h.st EXCEPT !.feedbackCurrent = sim]
              ELSE IF adc.ok
                   THEN [h.st EXCEPT !.feedbackCurrent =
                            (adc.value * FLM_HEADLIGHT_CURRENT_FACTOR) % 65536]
                   ELSE h.st
    IN  [h EXCEPT !.st = [s1 EXCEPT !.feedbackState =
                             (s1.feedbackCurrent >= FLM_HEADLIGHT_MIN_CURRENT_MA)]]

Headlight_IsOutputCommanded(st) == st.requestedCommand # "OFF"

\* Variant of Headlight_CheckOpenLoad without the settling window
Headlight_CheckOpenLoad_NoSettling(h) ==
    LET st == h.st
    IN  IF ~Headlight_IsOutputCommanded(st)
        THEN [h EXCEPT !.st.openLoadCounter = 0]
        ELSE IF st.feedbackCurrent < FLM_HEADLIGHT_OPEN_LOAD_MA
             THEN LET n == (st.openLoadCounter + 1) % 256
                  IN  IF n >= HEADLIGHT_FAULT_CONFIRM_CYCLES
                      THEN [h EXCEPT !.st.openLoadCounter = n,
                                     !.st.faultStatus = "OPEN_LOAD",
                                     !.st.faultConfirmed = TRUE]
                      ELSE [h EXCEPT !.st.openLoadCounter = n]
        ELSE [h EXCEPT !.st.openLoadCounter = 0]

Headlight_CheckOpenLoad(h) ==
    LET st == h.st
    IN  IF ~Headlight_IsOutputCommanded(st)
        THEN [h EXCEPT !.st.openLoadCounter = 0]
        ELSE IF Sub32(st.currentTime, st.commandChangeTime)
                  < FLM_HEADLIGHT_FAULT_DETECT_MS
             THEN h
        ELSE IF st.feedbackCurrent < FLM_HEADLIGHT_OPEN_LOAD_MA
             THEN LET n == (st.openLoadCounter + 1) % 256
                  IN  IF n >= HEADLIGHT_FAULT_CONFIRM_CYCLES
                      THEN [h EXCEPT !.st.openLoadCounter = n,
                                     !.st.faultStatus = "OPEN_LOAD",
                                     !.st.faultConfirmed = TRUE]
                      ELSE [h EXCEPT !.st.openLoadCounter = n]
        ELSE [h EXCEPT !.st.openLoadCounter = 0]

Headlight_CheckShortCircuit(h) ==
    LET st == h.st
    IN  IF st.feedbackCurrent > FLM_HEADLIGHT_MAX_CURRENT_MA
        THEN LET n == (st.shortCircuitCounter + 1) % 256
             IN  IF n >= HEADLIGHT_FAULT_CONFIRM_CYCLES
                 THEN [st |-> [st EXCEPT !.shortCircuitCounter = n,
                                         !.faultStatus = "SHORT",
                                         !.faultConfirmed = TRUE,
                                         !.lowBeamOutput = FALSE,
                                         !.highBeamOutput = FALSE],
                       dio |-> [lowBeam |-> FALSE, highBeam |-> FALSE]]
                 ELSE [h EXCEPT !.st.shortCircuitCounter = n]
        ELSE [h EXCEPT !.st.shortCircuitCounter = 0]

\* Variant of Headlight_UpdateFaultStatus that clears a confirmed fault too
Headlight_UpdateFaultStatus_Unlatched(h) ==
    IF /\ h.st.openLoadCounter = 0
       /\ h.st.shortCircuitCounter = 0
    THEN [h EXCEPT !.st.faultStatus = "NONE"]
    ELSE h

Headlight_UpdateFaultStatus(h) ==
    IF /\ h.st.openLoadCounter = 0
       /\ h.st.shortCircuitCounter = 0
       /\ ~h.st.faultConfirmed
    THEN [h EXCEPT !.st.faultStatus = "NONE"]
    ELSE h

\* Headlight_MainFunction on the pair; t is Headlight_SystemTime and cmd the
\* value of FLM_GetHeadlightCommand()
Headlight_MainFunctionState(h, t, cmd, en, sim, adc) ==
    LET h0 == [h EXCEPT !.st.currentTime = t, !.st.requestedCommand = cmd]
        h1 == Headlight_SetOutputs(h0)
        h2 == Headlight_ReadFeedback(h1, en, sim, adc)
        h3 == Headlight_CheckOpenLoad(h2)
        h4 == Headlight_CheckShortCircuit(h3)
        h5 == Headlight_UpdateFaultStatus(h4)
    IN  [h5 EXCEPT !.st.currentCommand = h5.st.requestedCommand]

\* A tick evaluates the sensed current for open load when the command it
\* read is not Off and the settling window since the last command change
\* has elapsed
Headlight_OpenLoadEvaluated(st) ==
    /\ st.requestedCommand # "OFF"
    /\ Sub32(st.currentTime, st.commandChangeTime)
          >= FLM_HEADLIGHT_FAULT_DETECT_MS

\* History of the evaluated observations: those in a row with a sensed
\* current below the open-load threshold (st is the state after the tick)
LowRunNext(st) ==
    IF ~Headlight_OpenLoadEvaluated(st) THEN lowRun
    ELSE IF st.feedbackCurrent >= FLM_HEADLIGHT_OPEN_LOAD_MA THEN 0
    ELSE IF lowRun < HEADLIGHT_FAULT_CONFIRM_CYCLES THEN lowRun + 1
    ELSE lowRun

Headlight_MainFunction(cmd, adc) ==
    /\ op' = "Headlight_MainFunction"
    /\ IF ~Headlight_State.isInitialized
       THEN UNCHANGED <<Headlight_State, Headlight_SystemTime, Dio_Levels,
                        shortConfirmed, lowRun>>
       ELSE LET new == Headlight_MainFunctionState(
                           [st |-> Headlight_State, dio |-> Dio_Levels],
                           Headlight_SystemTime, cmd,
                           Headlight_SimCurrentEnabled, Headlight_SimCurrent,
                           adc)
            IN  /\ Headlight_State' = new.st
                /\ Dio_Levels' = new.dio
                /\ Headlight_SystemTime' =
                       Add32(Headlight_SystemTime, FLM_MAIN_FUNCTION_PERIOD_MS)
                /\ shortConfirmed' =
                       (shortConfirmed \/ new.st.faultStatus = "SHORT")
                /\ lowRun' = LowRunNext(new.st)
    /\ UNCHANGED <<Headlight_SimCurrent, Headlight_SimCurrentEnabled>>

Headlight_Init ==
    /\ op' = "Headlight_Init"
    /\ Headlight_State' = Headlight_InitState
    /\ Dio_Levels' = Dio_InitLevels
    /\ shortConfirmed' = FALSE
    /\ lowRun' = 0
    /\ UNCHANGED <<Headlight_SystemTime, Headlight_SimCurrent,
                   Headlight_SimCurrentEnabled>>

Headlight_SimSetFeedbackCurrent(current) ==
    /\ op' = "Headlight_SimSetFeedbackCurrent"
    /\ Headlight_SimCurrent' = current
    /\ Headlight_SimCurrentEnabled' = TRUE
    /\ UNCHANGED <<Headlight_State, Headlight_SystemTime, Dio_Levels,
                   shortConfirmed, lowRun>>

(***************************************************************************)
(* LightRequest.cpp                                                        *)
(***************************************************************************)
\* LightRequest_Init: the state record after initialisation
LightRequest_InitState ==
    [ isInitialized |-> TRUE,
      adcBuffer |-> [i \in 1..LIGHTREQUEST_ADC_BUFFER_SIZE |-> 0],
      adcBufferIndex |-> 0,
      adcSampleCount |-> 0,
      adcFilteredValue |-> 0,
      adcRawValue |-> 0,
      previousFilteredValue |-> 0,
      rateOfChange |-> 0,
      rateCheckCounter |-> 0,
      ambientLight |-> [adcValue |-> 0, luxValue |-> 0, isValid |-> FALSE],
      signalStatus |-> "INVALID",
      plausibilityErrorCount |-> 0,
      plausibilityFault |-> FALSE,
      currentTimestamp |-> 0,
      conversionPending |-> FALSE ]

\* en, sim: the simulated ADC value; adc: the outcome of the ADC conversion
\* and read, [ok, value]
LightRequest_ReadAdc(st, en, sim, adc) ==
    IF en THEN [st EXCEPT !.adcRawValue = sim]
    ELSE IF adc.ok THEN [st EXCEPT !.adcRawValue = adc.value]
    ELSE st

\* Sum of the first n entries of the sample buffer
RECURSIVE LightRequest_BufferSum(_, _)
LightRequest_BufferSum(buf, n) ==
    IF n = 0 THEN 0 ELSE buf[n] + LightRequest_BufferSum(buf, n - 1)

LightRequest_ApplyFilter(st) ==
    LET s1 == [st EXCEPT !.adcBuffer[st.adcBufferIndex + 1] = st.adcRawValue,
                         !.adcBufferIndex = (@ + 1) % FLM_ADC_SAMPLES]
        s2 == IF s1.adcSampleCount < FLM_ADC_SAMPLES
              THEN [s1 EXCEPT !.adcSampleCount = @ + 1]
              ELSE s1
        count == s2.adcSampleCount
    IN  [s2 EXCEPT !.adcFilteredValue =
            (LightRequest_BufferSum(s2.adcBuffer, count) \div count) % 65536]

LightRequest_CheckOpenCircuit(st) ==
    IF st.adcFilteredValue < FLM_AMBIENT_OPEN_CIRCUIT
    THEN [st EXCEPT !.signalStatus = "OPEN_CIRCUIT",
                    !.ambientLight.isValid = FALSE]
    ELSE st

LightRequest_CheckShortCircuit(st) ==
    IF st.adcFilteredValue > FLM_AMBIENT_SHORT_CIRCUIT
    THEN [st EXCEPT !.signalStatus = "SHORT_CIRCUIT",
                    !.ambientLight.isValid = FALSE]
    ELSE st

LightRequest_CheckPlausibility(st) ==
    LET s1 == [st EXCEPT !.rateCheckCounter = (@ + 1) % 256]
    IN  IF s1.rateCheckCounter < LIGHTREQUEST_RATE_CHECK_CYCLES THEN s1
        ELSE
        LET d == s1.adcFilteredValue - s1.previousFilteredValue
            delta == IF d < 0 THEN -d ELSE d
            s2 == [s1 EXCEPT !.rateCheckCounter = 0,
                             !.rateOfChange = delta % 65536]
            s3 == IF s2.rateOfChange > FLM_AMBIENT_RATE_LIMIT
                  THEN LET n == IF s2.plausibilityErrorCount
                                     < LIGHTREQUEST_PLAUSIBILITY_DEBOUNCE
                                THEN s2.plausibilityErrorCount + 1
                                ELSE s2.plausibilityErrorCount
                       IN  IF n >= LIGHTREQUEST_PLAUSIBILITY_DEBOUNCE
                           THEN [s2 EXCEPT !.plausibilityErrorCount = n,
                                           !.plausibilityFault = TRUE,
                                           !.signalStatus = "PLAUSIBILITY",
                                           !.ambientLight.isValid = FALSE]
                           ELSE [s2 EXCEPT !.plausibilityErrorCount = n]
                  ELSE [s2 EXCEPT !.plausibilityErrorCount = 0,
                                  !.plausibilityFault = FALSE]
        IN  [s3 EXCEPT !.previousFilteredValue = s3.adcFilteredValue]

LightRequest_AdcToLux(adcValue) == adcValue \div 4

LightRequest_UpdateOutput(st) ==
    LET s1 == IF st.signalStatus \notin
                    {"OPEN_CIRCUIT", "SHORT_CIRCUIT", "PLAUSIBILITY"}
              THEN IF st.adcSampleCount >= FLM_ADC_SAMPLES
                   THEN [st EXCEPT !.signalStatus = "VALID",
                                   !.ambientLight.isValid = TRUE]
                   ELSE [st EXCEPT !.signalStatus = "INVALID",
                                   !.ambientLight.isValid = FALSE]
              ELSE st
    IN  [s1 EXCEPT !.ambientLight.adcValue = s1.adcFilteredValue,
                   !.ambientLight.luxValue =
                       LightRequest_AdcToLux(s1.adcFilteredValue)]

\* LightRequest_MainFunction on the record; t is LightRequest_SystemTime
LightRequest_MainFunctionState(st, t, en, sim, adc) ==
    LET s0 == [st EXCEPT !.currentTimestamp = t]
        s1 == LightRequest_ReadAdc(s0, en, sim, adc)
        s2 == LightRequest_ApplyFilter(s1)
        s3 == LightRequest_CheckOpenCircuit(s2)
        s4 == LightRequest_CheckShortCircuit(s3)
        s5 == LightRequest_CheckPlausibility(s4)
    IN  LightRequest_UpdateOutput(s5)

\* History of the injected value: ticks run with it since it changed last
HeldTicksNext ==
    IF ~LightRequest_SimAdcEnabled THEN 0
    ELSE IF heldTicks < 20 THEN heldTicks + 1 ELSE heldTicks

LightRequest_MainFunction(adc) ==
    /\ op' = "LightRequest_MainFunction"
    /\ IF ~LightRequest_State.isInitialized
       THEN UNCHANGED <<LightRequest_State, LightRequest_SystemTime,
                        heldTicks>>
       ELSE /\ LightRequest_State' = LightRequest_MainFunctionState(
                   LightRequest_State, LightRequest_SystemTime,
                   LightRequest_SimAdcEnabled, LightRequest_SimAdcValue, adc)
            /\ LightRequest_SystemTime' =
                   Add32(LightRequest_SystemTime, FLM_AMBIENT_LIGHT_PERIOD_MS)
            /\ heldTicks' = HeldTicksNext
    /\ UNCHANGED <<LightRequest_SimAdcValue, LightRequest_SimAdcEnabled,
                   lrSteps, stepStable>>

LightRequest_Init ==
    /\ op' = "LightRequest_Init"
    /\ LightRequest_State' = LightRequest_InitState
    /\ heldTicks' = 0
    /\ stepStable' = FALSE
    /\ UNCHANGED <<LightRequest_SystemTime, LightRequest_SimAdcValue,
                   LightRequest_SimAdcEnabled, lrSteps>>

\* History of the injected value: value replaces a value held for 10 ticks
\* or more and differs from it by more than the rate limit
StepStableNext(value) ==
    LET d == value - LightRequest_SimAdcValue
    IN  /\ LightRequest_SimAdcEnabled
        /\ heldTicks >= 10
        /\ (IF d < 0 THEN -d ELSE d) > FLM_AMBIENT_RATE_LIMIT

LightRequest_SimSetAdcValue(value) ==
    /\ op' = "LightRequest_SimSetAdcValue"
    /\ LightRequest_SimAdcValue' = value
    /\ LightRequest_SimAdcEnabled' = TRUE
    /\ lrSteps' = lrSteps + 1
    /\ heldTicks' = 0
    /\ stepStable' = StepStableNext(value)
    /\ UNCHANGED <<LightRequest_State, LightRequest_SystemTime>>

(***************************************************************************)
(* E2E_P01.cpp: E2E Profile 01 (CRC-8 SAE-J1850 and 4-bit counter)         *)
(***************************************************************************)
\* E2E_P01.h
E2E_P01_CRC_INITIAL_VALUE == 255
E2E_P01_CRC_XOR_VALUE == 255
E2E_P01_COUNTER_MAX == 14
E2E_P01_COUNTER_WRAP == 15
E2E_P01_MAX_DELTA_COUNTER_DEFAULT == 1

\* FLM_Config.h: the light-switch message
FLM_E2E_LIGHTSWITCH_DATA_LENGTH == 32
FLM_E2E_LIGHTSWITCH_DATA_ID == 256
FLM_E2E_MAX_DELTA_COUNTER == 2
FLM_E2E_MAX_NO_NEW_DATA == 5
FLM_E2E_SYNC_COUNTER == 2
FLM_E2E_COUNTER_OFFSET == 8
FLM_E2E_CRC_OFFSET == 0
FLM_CAN_LIGHTSWITCH_MSG_LEN == 4

\* FLM_Config.h: period of the scheduler loop
FLM_SYSTEM_TICK_MS == 1
COM_LIGHTSWITCH_CMD_BYTE == 2

\* Statuses that the supervisor counts as positive
E2E_PositiveStatus == {"OK", "OKSOMELOST", "INITIAL"}

\* The C operator ^ on n-bit operands
RECURSIVE XorBits(_, _, _)
XorBits(a, b, n) ==
    IF n = 0 THEN 0
    ELSE (((a % 2) + (b % 2)) % 2) + 2 * XorBits(a \div 2, b \div 2, n - 1)

\* ^ on nibbles, tabulated
XorNibble == [a \in 0..15 |-> [b \in 0..15 |-> XorBits(a, b, 4)]]

Xor8(a, b) ==
    16 * XorNibble[a \div 16][b \div 16] + XorNibble[a % 16][b % 16]

\* The lookup table for polynomial 0x1D (index i of the C array is i + 1)
E2E_P01_CRC8_Table ==
    <<0, 29, 58, 39, 116, 105, 78, 83,
       232, 245, 210, 207, 156, 129, 166, 187,
       205, 208, 247, 234, 185, 164, 131, 158,
       37, 56, 31, 2, 81, 76, 107, 118,
       135, 154, 189, 160, 243, 238, 201, 212,
       111, 114, 85, 72, 27, 6, 33, 60,
       74, 87, 112, 109, 62, 35, 4, 25,
       162, 191, 152, 133, 214, 203, 236, 241,
       19, 14, 41, 52, 103, 122, 93, 64,
       251, 230, 193, 220, 143, 146, 181, 168,
       222, 195, 228, 249, 170, 183, 144, 141,
       54, 43, 12, 17, 66, 95, 120, 101,
       148, 137, 174, 179, 224, 253, 218, 199,
       124, 97, 70, 91, 8, 21, 50, 47,
       89, 68, 99, 126, 45, 48, 23, 10,
       177, 172, 139, 150, 197, 216, 255, 226,
       38, 59, 28, 1, 82, 79, 104, 117,
       206, 211, 244, 233, 186, 167, 128, 157,
       235, 246, 209, 204, 159, 130, 165, 184,
       3, 30, 57, 36, 119, 106, 77, 80,
       161, 188, 155, 134, 213, 200, 239, 242,
       73, 84, 115, 110, 61, 32, 7, 26,
       108, 113, 86, 75, 24, 5, 34, 63,
       132, 153, 190, 163, 240, 237, 202, 215,
       53, 40, 15, 18, 65, 92, 123, 102,
       221, 192, 231, 250, 169, 180, 147, 142,
       248, 229, 194, 223, 140, 145, 182, 171,
       16, 13, 42, 55, 100, 121, 94, 67,
       178, 175, 136, 149, 198, 219, 252, 225,
       90, 71, 96, 125, 46, 51, 20, 9,
       127, 98, 69, 88, 11, 22, 49, 44,
       151, 138, 173, 176, 227, 254, 217, 196 >>

\* The table loop of E2E_P01_CalculateCRC8 over the bytes of data
RECURSIVE E2E_P01_CRC8_Loop(_, _)
E2E_P01_CRC8_Loop(crc, data) ==
    IF data = <<>> THEN crc
    ELSE E2E_P01_CRC8_Loop(E2E_P01_CRC8_Table[Xor8(crc, Head(data)) + 1],
                           Tail(data))

E2E_P01_CalculateCRC8(data, startValue, isFirstCall) ==
    Xor8(E2E_P01_CRC8_Loop(IF isFirstCall THEN E2E_P01_CRC_INITIAL_VALUE
                           ELSE startValue, data),
         E2E_P01_CRC_XOR_VALUE)

E2E_P01_IncrementCounter(counter) ==
    LET newCounter == (counter + 1) % 256
    IN  IF newCounter > E2E_P01_COUNTER_MAX THEN 0 ELSE newCounter

E2E_P01_DeltaCounter(receivedCounter, lastValidCounter) ==
    IF receivedCounter >= lastValidCounter
    THEN receivedCounter - lastValidCounter
    ELSE E2E_P01_COUNTER_WRAP - lastValidCounter + receivedCounter + 1

\* data is the sequence of the bytes of the frame (byte i of the C buffer is
\* data[i + 1])
E2E_P01_GetCounter(data, config) ==
    data[(config.CounterOffset \div 8) + 1] % 16

E2E_P01_SetCounter(data, config, counter) ==
    LET i == (config.CounterOffset \div 8) + 1
    IN  [data EXCEPT ![i] = (data[i] \div 16) * 16 + (counter % 16)]

E2E_P01_GetCRC(data, config) == data[(config.CRCOffset \div 8) + 1]

E2E_P01_SetCRC(data, config, crc) ==
    [data EXCEPT ![(config.CRCOffset \div 8) + 1] = crc]

\* The CRC over the DataID bytes and the frame without its CRC byte, as
\* E2E_P01Protect and E2E_P01Check both compute it
E2E_P01_FrameCRC(config, data, length) ==
    LET crcByteOffset == config.CRCOffset \div 8
        dataIdBytes == <<(config.DataID \div 256) % 256, config.DataID % 256>>
        c0 == E2E_P01_CalculateCRC8(dataIdBytes, 0, TRUE)
        c1 == IF crcByteOffset > 0
              THEN E2E_P01_CalculateCRC8(SubSeq(data, 1, crcByteOffset),
                                         c0, FALSE)
              ELSE c0
    IN  IF crcByteOffset < length - 1
        THEN E2E_P01_CalculateCRC8(SubSeq(data, crcByteOffset + 2, length),
                                   c1, FALSE)
        ELSE c1

\* E2E_P01ProtectInit
E2E_P01ProtectInitState == [Counter |-> 0]

\* E2E_P01Protect: the protector state and the buffer after the call
E2E_P01Protect(config, state, data, length) ==
    IF length = 0 THEN [ret |-> "E_NOT_OK", state |-> state, data |-> data]
    ELSE LET d1 == E2E_P01_SetCounter(data, config, state.Counter)
             d2 == E2E_P01_SetCRC(d1, config,
                                  E2E_P01_FrameCRC(config, d1, length))
         IN  [ret |-> "E_OK",
              state |-> [state EXCEPT
                            !.Counter = E2E_P01_IncrementCounter(state.Counter)],
              data |-> d2]

\* E2E_P01CheckInit
E2E_P01CheckInitState ==
    [ LastValidCounter |-> 0,
      MaxDeltaCounter |-> E2E_P01_MAX_DELTA_COUNTER_DEFAULT,
      WaitForFirstData |-> TRUE,
      NewDataAvailable |-> FALSE,
      LostData |-> 0,
      Status |-> "INITIAL",
      NoNewOrRepeatedDataCounter |-> 0,
      SyncCounter |-> 0 ]

\* Variant of E2E_P01Check that resynchronises on a frame out of sequence
E2E_P01Check_Resync(config, state, data, length) ==
    IF length = 0
    THEN LET n == (state.NoNewOrRepeatedDataCounter + 1) % 65536
         IN  [state EXCEPT !.NoNewOrRepeatedDataCounter = n,
                           !.Status = IF n >= config.MaxNoNewOrRepeatedData
                                      THEN "NONEWDATA" ELSE @]
    ELSE IF E2E_P01_GetCRC(data, config) # E2E_P01_FrameCRC(config, data, length)
         THEN [state EXCEPT !.Status = "WRONGCRC"]
    ELSE LET receivedCounter == E2E_P01_GetCounter(data, config)
             s1 == [state EXCEPT !.NoNewOrRepeatedDataCounter = 0]
             deltaCounter == E2E_P01_DeltaCounter(receivedCounter,
                                                  s1.LastValidCounter)
         IN  IF s1.WaitForFirstData
             THEN [s1 EXCEPT !.WaitForFirstData = FALSE,
                             !.LastValidCounter = receivedCounter,
                             !.Status = "INITIAL"]
             ELSE IF deltaCounter = 0
                  THEN [s1 EXCEPT !.Status = "REPEATED"]
             ELSE IF deltaCounter = 1
                  THEN [s1 EXCEPT !.LastValidCounter = receivedCounter,
                                  !.Status = "OK"]
             ELSE IF deltaCounter > 1 /\ deltaCounter <= config.MaxDeltaCounter
                  THEN [s1 EXCEPT !.LostData =
                                      (@ + (deltaCounter - 1)) % 65536,
                                  !.LastValidCounter = receivedCounter,
                                  !.Status = "OKSOMELOST"]
             ELSE [s1 EXCEPT !.LastValidCounter = receivedCounter,
                             !.Status = "WRONGSEQUENCE"]

\* E2E_P01Check: the checker state after the call; the value returned is its
\* Status field.  A call with a null data pointer is a call with length 0.
E2E_P01Check(config, state, data, length) ==
    IF length = 0
    THEN LET n == (state.NoNewOrRepeatedDataCounter + 1) % 65536
         IN  [state EXCEPT !.NoNewOrRepeatedDataCounter = n,
                           !.Status = IF n >= config.MaxNoNewOrRepeatedData
                                      THEN "NONEWDATA" ELSE @]
    ELSE IF E2E_P01_GetCRC(data, config) # E2E_P01_FrameCRC(config, data, length)
         THEN [state EXCEPT !.Status = "WRONGCRC"]
    ELSE LET receivedCounter == E2E_P01_GetCounter(data, config)
             s1 == [state EXCEPT !.NoNewOrRepeatedDataCounter = 0]
             deltaCounter == E2E_P01_DeltaCounter(receivedCounter,
                                                  s1.LastValidCounter)
         IN  IF s1.WaitForFirstData
             THEN [s1 EXCEPT !.WaitForFirstData = FALSE,
                             !.LastValidCounter = receivedCounter,
                             !.Status = "INITIAL"]
             ELSE IF deltaCounter = 0
                  THEN [s1 EXCEPT !.Status = "REPEATED"]
             ELSE IF deltaCounter = 1
                  THEN [s1 EXCEPT !.LastValidCounter = receivedCounter,
                                  !.Status = "OK"]
             ELSE IF deltaCounter > 1 /\ deltaCounter <= config.MaxDeltaCounter
                  THEN [s1 EXCEPT !.LostData =
                                      (@ + (deltaCounter - 1)) % 65536,
                                  !.LastValidCounter = receivedCounter,
                                  !.Status = "OKSOMELOST"]
             ELSE [s1 EXCEPT !.Status = "WRONGSEQUENCE"]

(***************************************************************************)
(* E2E_P01.cpp: the calls with their pointer arguments.  A pointer         *)
(* argument is NULL_PTR or Ptr(object); stray is the content of the memory *)
(* that follows the buffer, which the call reads and writes when an offset *)
(* of the configuration lies outside the frame (the write itself lands     *)
(* outside the buffer and is not part of the result).                      *)
(***************************************************************************)
NULL_PTR == [null |-> TRUE]

Ptr(object) == [null |-> FALSE, at |-> object]

\* E2E_P01Protect: return value, protector state and buffer after the call
E2E_P01ProtectCall(config, state, data, length, stray) ==
    IF config.null \/ state.null \/ data.null
    THEN [ret |-> "E_NOT_OK", state |-> state, data |-> data]
    ELSE LET r == E2E_P01Protect(config.at, state.at, data.at \o stray,
                                 length)
         IN  [ret |-> r.ret,
              state |-> Ptr(r.state),
              data |-> Ptr(SubSeq(r.data, 1, Len(data.at)))]

\* E2E_P01Check: returned status and checker state after the call
E2E_P01CheckCall(config, state, data, length, stray) ==
    IF config.null \/ state.null
    THEN [ret |-> "WRONGCRC", state |-> state]
    ELSE LET s == IF data.null
                  THEN E2E_P01Check(config.at, state.at, <<>>, 0)
                  ELSE E2E_P01Check(config.at, state.at, data.at \o stray,
                                    length)
         IN  [ret |-> s.Status, state |-> Ptr(s)]

\* E2E_SMCheckInit
E2E_SMCheckInitState == [OkCount |-> 0, ErrorCount |-> 0, SMState |-> "DEINIT"]

\* E2E_SMCheck: the supervisor state after the call; the value returned is
\* its SMState field
E2E_SMCheck(config, state, profileStatus) ==
    LET isOk == profileStatus \in E2E_PositiveStatus
        s1 == IF isOk
              THEN [state EXCEPT
                       !.OkCount = IF @ < 255 THEN @ + 1 ELSE @,
                       !.ErrorCount = 0]
              ELSE [state EXCEPT
                       !.ErrorCount = IF @ < 255 THEN @ + 1 ELSE @,
                       !.OkCount = IF profileStatus # "REPEATED" THEN 0 ELSE @]
        cleared(s, to) == [s EXCEPT !.SMState = to, !.OkCount = 0,
                                    !.ErrorCount = 0]
    IN  CASE s1.SMState = "DEINIT" -> [s1 EXCEPT !.SMState = "NODATA"]
          [] s1.SMState = "NODATA" ->
                IF profileStatus # "NONEWDATA"
                THEN [s1 EXCEPT !.SMState = "INIT"] ELSE s1
          [] s1.SMState = "INIT" ->
                IF s1.OkCount >= config.MinOkStateInit
                THEN cleared(s1, "VALID")
                ELSE IF s1.ErrorCount >= config.MaxErrorStateInit
                     THEN cleared(s1, "INVALID")
                     ELSE s1
          [] s1.SMState = "VALID" ->
                IF s1.ErrorCount >= config.MaxErrorStateValid
                THEN cleared(s1, "INVALID") ELSE s1
          [] s1.SMState = "INVALID" ->
                IF s1.OkCount >= config.MinOkStateInvalid
                THEN cleared(s1, "VALID") ELSE s1
          [] OTHER -> [s1 EXCEPT !.SMState = "INVALID"]

\* The configuration of the light-switch message (SwitchEvent_InitE2E, and
\* the fixture of test_E2E.cpp)
E2E_LightSwitchConfig ==
    [ DataLength |-> FLM_E2E_LIGHTSWITCH_DATA_LENGTH,
      DataID |-> FLM_E2E_LIGHTSWITCH_DATA_ID,
      MaxDeltaCounter |-> FLM_E2E_MAX_DELTA_COUNTER,
      MaxNoNewOrRepeatedData |-> FLM_E2E_MAX_NO_NEW_DATA,
      SyncCounter |-> FLM_E2E_SYNC_COUNTER,
      CounterOffset |-> FLM_E2E_COUNTER_OFFSET,
      CRCOffset |-> FLM_E2E_CRC_OFFSET,
      DataIDNibbleOffset |-> 0,
      DataIDMode |-> FALSE ]

\* The supervisor configuration set by SwitchEvent_InitE2E
E2E_LightSwitchSMConfig ==
    [ WindowSize |-> 5,
      MinOkStateInit |-> 2,
      MaxErrorStateInit |-> 2,
      MinOkStateValid |-> 2,
      MinOkStateInvalid |-> 3,
      MaxErrorStateValid |-> 2,
      MaxErrorStateInvalid |-> 3 ]

(***************************************************************************)
(* SwitchEvent.cpp                                                         *)
(***************************************************************************)
\* SwitchEvent.h
SWITCHEVENT_TIMEOUT_CYCLES == 5
SWITCHEVENT_E2E_TIMEOUT_CYCLES == 10
SWITCHEVENT_MAX_E2E_ERRORS == 5

\* SwitchEvent_Init: the state record after initialisation (memset 0,
\* SwitchEvent_InitE2E and the assignments)
SwitchEvent_InitState ==
    [ isInitialized |-> TRUE,
      e2eCheckState |-> E2E_P01CheckInitState,
      e2eSmState |-> E2E_SMCheckInitState,
      lightSwitchStatus |-> [command |-> LIGHT_SWITCH_OFF, isValid |-> FALSE,
                             e2eStatus |-> "OK"],
      e2eStatus |-> "OK",
      e2eSmStatus |-> "VALID",
      timeoutCounter |-> 0,
      e2eTimeoutCounter |-> 0,
      lastValidTimestamp |-> 0,
      currentTimestamp |-> 0,
      consecutiveE2EErrors |-> 0,
      consecutiveTimeouts |-> 0,
      e2eFailureActive |-> FALSE,
      timeoutActive |-> FALSE,
      lastMessageData |-> <<0, 0, 0, 0>>,
      newMessageReceived |-> FALSE ]

SwitchEvent_IsCommandValid(command) == command <= LIGHT_SWITCH_AUTO

SwitchEvent_ExtractLightSwitchCommand(st, data) ==
    LET command == data[COM_LIGHTSWITCH_CMD_BYTE + 1]
    IN  IF SwitchEvent_IsCommandValid(command)
        THEN [st EXCEPT !.lightSwitchStatus.command = command]
        ELSE [st EXCEPT !.lightSwitchStatus.isValid = FALSE]

SwitchEvent_PerformE2ECheck(st) ==
    IF st.newMessageReceived
    THEN LET chk == E2E_P01Check(E2E_LightSwitchConfig, st.e2eCheckState,
                                 st.lastMessageData,
                                 FLM_CAN_LIGHTSWITCH_MSG_LEN)
             sm == E2E_SMCheck(E2E_LightSwitchSMConfig, st.e2eSmState,
                               chk.Status)
             s1 == [st EXCEPT !.e2eCheckState = chk,
                              !.e2eStatus = chk.Status,
                              !.e2eSmState = sm,
                              !.e2eSmStatus = sm.SMState]
             s2 == IF s1.e2eStatus \in {"OK", "OKSOMELOST", "INITIAL"}
                   THEN [SwitchEvent_ExtractLightSwitchCommand(
                             s1, s1.lastMessageData)
                         EXCEPT !.consecutiveE2EErrors = 0,
                                !.lastValidTimestamp = s1.currentTimestamp,
                                !.timeoutCounter = 0,
                                !.e2eFailureActive = FALSE]
                   ELSE LET n == (s1.consecutiveE2EErrors + 1) % 256
                        IN  IF n >= SWITCHEVENT_MAX_E2E_ERRORS
                            THEN [s1 EXCEPT
                                     !.consecutiveE2EErrors = n,
                                     !.e2eFailureActive = TRUE,
                                     !.lightSwitchStatus.isValid = FALSE]
                            ELSE [s1 EXCEPT !.consecutiveE2EErrors = n]
         IN  [s2 EXCEPT !.newMessageReceived = FALSE]
    ELSE LET chk == E2E_P01Check(E2E_LightSwitchConfig, st.e2eCheckState,
                                 <<>>, 0)
             sm == E2E_SMCheck(E2E_LightSwitchSMConfig, st.e2eSmState,
                               chk.Status)
         IN  [st EXCEPT !.e2eCheckState = chk,
                        !.e2eStatus = chk.Status,
                        !.e2eSmState = sm,
                        !.e2eSmStatus = sm.SMState]

\* Variant of SwitchEvent_UpdateTimeoutStatus that never lowers the timeout
\* flag again
SwitchEvent_UpdateTimeoutStatus_Latched(st) ==
    LET s1 == IF ~st.newMessageReceived
              THEN [st EXCEPT !.timeoutCounter = (@ + 1) % 65536]
              ELSE st
        s2 == IF s1.timeoutCounter >= SWITCHEVENT_TIMEOUT_CYCLES
              THEN [s1 EXCEPT !.timeoutActive = TRUE,
                              !.consecutiveTimeouts = (@ + 1) % 256,
                              !.lightSwitchStatus.isValid = FALSE]
              ELSE s1
    IN  IF s2.e2eSmStatus # "VALID"
        THEN LET n == (s2.e2eTimeoutCounter + 1) % 65536
             IN  [s2 EXCEPT !.e2eTimeoutCounter = n,
                            !.e2eFailureActive =
                                IF n >= SWITCHEVENT_E2E_TIMEOUT_CYCLES
                                THEN TRUE ELSE @]
        ELSE [s2 EXCEPT !.e2eTimeoutCounter = 0]

SwitchEvent_UpdateTimeoutStatus(st) ==
    LET s1 == IF ~st.newMessageReceived
              THEN [st EXCEPT !.timeoutCounter = (@ + 1) % 65536]
              ELSE st
        s2 == IF s1.timeoutCounter >= SWITCHEVENT_TIMEOUT_CYCLES
              THEN [s1 EXCEPT !.timeoutActive = TRUE,
                              !.consecutiveTimeouts = (@ + 1) % 256,
                              !.lightSwitchStatus.isValid = FALSE]
              ELSE [s1 EXCEPT !.timeoutActive = FALSE,
                              !.consecutiveTimeouts = 0]
    IN  IF s2.e2eSmStatus # "VALID"
        THEN LET n == (s2.e2eTimeoutCounter + 1) % 65536
             IN  [s2 EXCEPT !.e2eTimeoutCounter = n,
                            !.e2eFailureActive =
                                IF n >= SWITCHEVENT_E2E_TIMEOUT_CYCLES
                                THEN TRUE ELSE @]
        ELSE [s2 EXCEPT !.e2eTimeoutCounter = 0]

\* Variant of SwitchEvent_DetermineValidity that looks at the supervisor only
SwitchEvent_DetermineValidity_NoTimeout(st) ==
    [st EXCEPT !.lightSwitchStatus.isValid = (st.e2eSmStatus = "VALID")]

\* "Determine overall validity" in SwitchEvent_MainFunction
SwitchEvent_DetermineValidity(st) ==
    IF st.e2eSmStatus = "VALID"
    THEN IF ~st.timeoutActive
         THEN [st EXCEPT !.lightSwitchStatus.isValid = TRUE]
         ELSE [st EXCEPT !.lightSwitchStatus.isValid = FALSE]
    ELSE [st EXCEPT !.lightSwitchStatus.isValid = FALSE]

\* SwitchEvent_MainFunction on the record; t is SwitchEvent_SystemTime
SwitchEvent_MainFunctionState(st, t) ==
    LET s0 == [st EXCEPT !.currentTimestamp = t]
        s1 == SwitchEvent_PerformE2ECheck(s0)
        s2 == SwitchEvent_UpdateTimeoutStatus(s1)
        s3 == SwitchEvent_DetermineValidity(s2)
    IN  [s3 EXCEPT !.lightSwitchStatus.e2eStatus = s3.e2eStatus]

\* History of the statuses fed to the supervisor: the last two
FedNext(status) ==
    LET all == Append(fed, status)
    IN  IF Len(all) > 2 THEN Tail(all) ELSE all

\* History of the ticks: those in a row without a pending frame, and those
\* in a row with a fresh correct frame pending
IdleTicksNext(st) ==
    IF st.newMessageReceived THEN 0
    ELSE IF idleTicks < SWITCHEVENT_TIMEOUT_CYCLES THEN idleTicks + 1
    ELSE idleTicks

GoodTicksNext(st) ==
    IF ~(st.newMessageReceived /\ pendingFresh) THEN 0
    ELSE IF goodTicks < RecoveryTicks THEN goodTicks + 1
    ELSE goodTicks

SwitchEvent_MainFunction ==
    /\ op' = "SwitchEvent_MainFunction"
    /\ pendingFresh' = FALSE
    /\ IF ~SwitchEvent_State.isInitialized
       THEN UNCHANGED <<SwitchEvent_State, SwitchEvent_SystemTime, fed,
                        idleTicks, goodTicks>>
       ELSE LET new == SwitchEvent_MainFunctionState(SwitchEvent_State,
                                                     SwitchEvent_SystemTime)
            IN  /\ SwitchEvent_State' = new
                /\ SwitchEvent_SystemTime' =
                       Add32(SwitchEvent_SystemTime,
                             FLM_MAIN_FUNCTION_PERIOD_MS)
                /\ fed' = FedNext(new.e2eStatus)
                /\ idleTicks' = IdleTicksNext(SwitchEvent_State)
                /\ goodTicks' = GoodTicksNext(SwitchEvent_State)

SwitchEvent_Init ==
    /\ op' = "SwitchEvent_Init"
    /\ SwitchEvent_State' = SwitchEvent_InitState
    /\ fed' = <<>>
    /\ pendingFresh' = FALSE
    /\ idleTicks' = 0
    /\ goodTicks' = 0
    /\ UNCHANGED SwitchEvent_SystemTime

SwitchEvent_ProcessCanMessage(data, length) ==
    /\ op' = "SwitchEvent_ProcessCanMessage"
    /\ IF length # FLM_CAN_LIGHTSWITCH_MSG_LEN
       THEN UNCHANGED SwitchEvent_State
       ELSE SwitchEvent_State' =
                [SwitchEvent_State EXCEPT !.lastMessageData = data,
                                          !.newMessageReceived = TRUE]
    /\ UNCHANGED <<SwitchEvent_SystemTime, fed, idleTicks, goodTicks>>

(***************************************************************************)
(* Com.cpp: the light switch PDU (COM_IPDU_LIGHTSWITCH_RX)                 *)
(***************************************************************************)
\* The surroundings System_Init and the first calls of System_SimulateInputs
\* set up: ambient channel at 2000, a sender of frames with command 0
SysInitialSender ==
    [on |-> TRUE, command |-> LIGHT_SWITCH_OFF, intact |-> TRUE]

SysInitialAmbient == 2000

\* Com_Init: cleared buffer, no new data
Com_InitIpdu == [data |-> <<0, 0, 0, 0>>, length |-> 0, newData |-> FALSE]

\* Com_RxIndication: stores at most 8 bytes and raises newData
Com_RxIndication(ipdu, data, length) ==
    [data |-> data,
     length |-> IF length > 8 THEN 8 ELSE length,
     newData |-> TRUE]

(***************************************************************************)
(* main.cpp: what the components read from one another                     *)
(***************************************************************************)
\* SwitchEvent_GetLightRequest, SwitchEvent_GetE2EStatus,
\* SwitchEvent_GetE2ESmStatus, LightRequest_GetAmbientLight and
\* Headlight_GetFaultStatus, as the aggregator calls them
SysPublished(sw, lr, hl) ==
    [ ls |-> sw.lightSwitchStatus,
      e2e |-> sw.e2eStatus,
      e2eSm |-> sw.e2eSmStatus,
      al |-> lr.ambientLight,
      hl |-> hl.faultStatus ]

(***************************************************************************)
(* Initial state: every component after its *_Init function (System_Init)  *)
(***************************************************************************)
\* What the getters of SwitchEvent, LightRequest and Headlight return after
\* initialisation
PublishedInit ==
    [ ls |-> [command |-> LIGHT_SWITCH_OFF, isValid |-> FALSE,
              e2eStatus |-> "OK"],
      e2e |-> "OK",
      e2eSm |-> "VALID",
      al |-> [adcValue |-> 0, luxValue |-> 0, isValid |-> FALSE],
      hl |-> "NONE" ]

Init ==
    /\ FLM_State = FLM_InitState
    /\ FLM_SystemTime = 0
    /\ FLM_ExternalSafeStateTrigger = FALSE
    /\ FLM_SafeStateReason = "NONE"
    /\ degradedSince = -1
    /\ invalidRun = 0
    /\ SafetyMonitor_State = SafetyMonitor_InitState
    /\ SafetyMonitor_SystemTime = 0
    /\ SafetyMonitor_SimWdgmStatus = "OK"
    /\ SafetyMonitor_SimWdgmEnabled = FALSE
    /\ published = PublishedInit
    /\ faultSince = -1
    /\ nonValidSince = -1
    /\ Headlight_State = Headlight_InitState
    /\ Headlight_SystemTime = 0
    /\ Headlight_SimCurrent = 0
    /\ Headlight_SimCurrentEnabled = FALSE
    /\ Dio_Levels = Dio_InitLevels
    /\ shortConfirmed = FALSE
    /\ lowRun = 0
    /\ LightRequest_State = LightRequest_InitState
    /\ LightRequest_SystemTime = 0
    /\ LightRequest_SimAdcValue = 2000
    /\ LightRequest_SimAdcEnabled = FALSE
    /\ lrSteps = 0
    /\ heldTicks = 0
    /\ stepStable = FALSE
    /\ protectState = E2E_P01ProtectInitState
    /\ checkState = E2E_P01CheckInitState
    /\ frameData = <<0, 0, 0, 0>>
    /\ framesChecked = 0
    /\ inOrder = TRUE
    /\ forged = 0
    /\ lastCall = [fn |-> "none"]
    /\ SwitchEvent_State = SwitchEvent_InitState
    /\ SwitchEvent_SystemTime = 0
    /\ senderState = E2E_P01ProtectInitState
    /\ fed = <<>>
    /\ pendingFresh = FALSE
    /\ idleTicks = 0
    /\ goodTicks = 0
    /\ System_TickMs = 0
    /\ sysPc = "System_SimulateInputs"
    /\ Com_IpduData = Com_InitIpdu
    /\ Adc_SimValues = [ambient |-> SysInitialAmbient, current |-> 0]
    /\ simSender = SysInitialSender
    /\ simPhase = "initial"
    /\ delivered = <<>>
    /\ tickStart = SysPublished(SwitchEvent_InitState, LightRequest_InitState,
                                Headlight_InitState)
    /\ op = "Init"

(***************************************************************************)
(* The FlmController on its own: any published switch report and ambient   *)
(* reading at every tick, the external trigger and a re-initialisation at  *)
(* any time.                                                               *)
(***************************************************************************)
FlmTick ==
    /\ FLM_SystemTime < MaxFlmTicks * FLM_MAIN_FUNCTION_PERIOD_MS
    /\ \E sw \in FlmSwitchInputs, amb \in FlmAmbientInputs :
           FLM_MainFunction(sw, amb)
    /\ UNCHANGED <<sysVars, smVars, lrVars, hlVars, e2eVars, swVars>>

FlmTrigger ==
    /\ ~FLM_ExternalSafeStateTrigger
    /\ \E r \in {"MANUAL"} : FLM_TriggerSafeState(r)
    /\ UNCHANGED <<sysVars, smVars, lrVars, hlVars, e2eVars, swVars>>

FlmReinit ==
    /\ op # "FLM_Init"
    /\ FLM_Init
    /\ UNCHANGED <<sysVars, smVars, lrVars, hlVars, e2eVars, swVars>>

FlmNext == FlmTick \/ FlmTrigger \/ FlmReinit

SpecFLM == Init /\ [][FlmNext]_vars

(***************************************************************************)
(* The aggregator on its own.  The monitored components publish any of     *)
(* SmPublished; what they publish may change, and the simulated WdgM       *)
(* status, an outside trigger call and a re-initialisation may occur,      *)
(* before each of the first SmFreeTicks ticks and then every               *)
(* SmEnvPeriodTicks ticks; in between the published values are held.  The  *)
(* simulated WdgM status may also change before the tick SmWdgmTick.       *)
(***************************************************************************)
SmSwitchPublished ==
    { [ls |-> [command |-> LIGHT_SWITCH_LOW_BEAM, isValid |-> TRUE,
               e2eStatus |-> "OK"],
       e2e |-> "OK", e2eSm |-> "VALID"],
      [ls |-> [command |-> LIGHT_SWITCH_LOW_BEAM, isValid |-> FALSE,
               e2eStatus |-> "NONEWDATA"],
       e2e |-> "NONEWDATA", e2eSm |-> "VALID"],
      [ls |-> [command |-> LIGHT_SWITCH_LOW_BEAM, isValid |-> FALSE,
               e2eStatus |-> "WRONGCRC"],
       e2e |-> "WRONGCRC", e2eSm |-> "INVALID"] }

SmAmbientPublished ==
    { [adcValue |-> SAFETYMONITOR_DAY_THRESHOLD, luxValue |-> 375,
       isValid |-> TRUE],
      [adcValue |-> SAFETYMONITOR_DAY_THRESHOLD + 1, luxValue |-> 375,
       isValid |-> TRUE],
      [adcValue |-> 50, luxValue |-> 12, isValid |-> FALSE] }

SmPublished ==
    { [ls |-> s.ls, e2e |-> s.e2e, e2eSm |-> s.e2eSm, al |-> a, hl |-> h]
      : s \in SmSwitchPublished, a \in SmAmbientPublished,
        h \in {"NONE", "SHORT"} }

SmEnvOpen ==
    \/ SafetyMonitor_SystemTime < SmFreeTicks * FLM_SAFETY_MONITOR_PERIOD_MS
    \/ SafetyMonitor_SystemTime
         % (SmEnvPeriodTicks * FLM_SAFETY_MONITOR_PERIOD_MS) = 0

SmTick ==
    /\ SafetyMonitor_SystemTime < MaxSmTicks * FLM_SAFETY_MONITOR_PERIOD_MS
    /\ \E pub \in (IF SmEnvOpen THEN SmPublished ELSE {published}) :
           SafetyMonitor_MainFunction(pub)
    /\ UNCHANGED <<sysVars, hlVars, lrVars, e2eVars, swVars>>

SmWdgmOpen ==
    SafetyMonitor_SystemTime
        = SmWdgmTick * FLM_SAFETY_MONITOR_PERIOD_MS

SmSetWdgm ==
    /\ SmEnvOpen \/ SmWdgmOpen
    /\ op # "SafetyMonitor_SimSetWdgmStatus"
    /\ \E w \in {"OK", "FAILED", "STOPPED"} :
          /\ ~SafetyMonitor_SimWdgmEnabled \/ w # SafetyMonitor_SimWdgmStatus
          /\ SafetyMonitor_SimSetWdgmStatus(w)
    /\ UNCHANGED <<sysVars, hlVars, lrVars, e2eVars, swVars>>

SmTrigger ==
    /\ SmEnvOpen
    /\ op # "SafetyMonitor_TriggerSafeState"
    /\ \E r \in {"MANUAL", "WDGM_FAILURE"} :
          SafetyMonitor_TriggerSafeState_Call(r)
    /\ UNCHANGED <<sysVars, hlVars, lrVars, e2eVars, swVars>>

SmReinit ==
    /\ SmEnvOpen
    /\ op # "SafetyMonitor_Init"
    /\ SafetyMonitor_Init
    /\ UNCHANGED <<sysVars, hlVars, lrVars, e2eVars, swVars>>

SmNext == SmTick \/ SmSetWdgm \/ SmTrigger \/ SmReinit

SpecSM == Init /\ [][SmNext]_vars

(***************************************************************************)
(* The OutputMonitor on its own: any headlight command at every tick, the  *)
(* feedback current from the simulation hook or from the ADC.              *)
(***************************************************************************)
\* Simulated feedback currents (mA) around the open-load, minimum and
\* over-current thresholds
HlSimCurrents ==
    {0, FLM_HEADLIGHT_OPEN_LOAD_MA, FLM_HEADLIGHT_MIN_CURRENT_MA,
     FLM_HEADLIGHT_MAX_CURRENT_MA, FLM_HEADLIGHT_MAX_CURRENT_MA + 1}

\* Outcomes of the ADC conversion of the current-sense channel
HlAdcReads ==
    { [ok |-> FALSE, value |-> 0], [ok |-> TRUE, value |-> 200],
      [ok |-> TRUE, value |-> 1501] }

HlTick ==
    /\ Headlight_SystemTime < MaxHlTicks * FLM_MAIN_FUNCTION_PERIOD_MS
    /\ \E cmd \in HeadlightCommand :
       \E adc \in (IF Headlight_SimCurrentEnabled
                   THEN {[ok |-> FALSE, value |-> 0]} ELSE HlAdcReads) :
           Headlight_MainFunction(cmd, adc)
    /\ UNCHANGED <<sysVars, flmVars, smVars, lrVars, e2eVars, swVars>>

HlSimSet ==
    /\ op # "Headlight_SimSetFeedbackCurrent"
    /\ \E c \in HlSimCurrents :
          /\ ~Headlight_SimCurrentEnabled \/ c # Headlight_SimCurrent
          /\ Headlight_SimSetFeedbackCurrent(c)
    /\ UNCHANGED <<sysVars, flmVars, smVars, lrVars, e2eVars, swVars>>

HlReinit ==
    /\ op # "Headlight_Init"
    /\ Headlight_Init
    /\ UNCHANGED <<sysVars, flmVars, smVars, lrVars, e2eVars, swVars>>

HlNext == HlTick \/ HlSimSet \/ HlReinit

SpecHL == Init /\ [][HlNext]_vars

(***************************************************************************)
(* A protector and a checker paired on the light-switch configuration, as  *)
(* in the fixture of test_E2E.cpp: every frame is checked as soon as it is *)
(* produced.  Frames come from the running protector state or, up to       *)
(* MaxForgedFrames times, from a protector state with a counter of the     *)
(* sender's choice (frames lost, repeated or out of order on the bus).     *)
(***************************************************************************)
E2eCommands == {LIGHT_SWITCH_LOW_BEAM, LIGHT_SWITCH_AUTO}

\* The buffer handed to E2E_P01Protect: command in byte 2, the rest zero
E2eBuffer(cmd) == <<0, 0, cmd, 0>>

E2eSend ==
    /\ framesChecked < MaxE2eFrames
    /\ \E cmd \in E2eCommands :
          LET p == E2E_P01Protect(E2E_LightSwitchConfig, protectState,
                                  E2eBuffer(cmd), FLM_CAN_LIGHTSWITCH_MSG_LEN)
          IN  /\ protectState' = p.state
              /\ frameData' = p.data
              /\ checkState' = E2E_P01Check(E2E_LightSwitchConfig, checkState,
                                            p.data, FLM_CAN_LIGHTSWITCH_MSG_LEN)
    /\ framesChecked' = framesChecked + 1
    /\ op' = "E2E_P01Check"
    /\ UNCHANGED <<sysVars, lastCall, inOrder, forged, flmVars, smVars, lrVars, hlVars,
                   swVars>>

E2eForge ==
    /\ framesChecked < MaxE2eFrames
    /\ forged < MaxForgedFrames
    /\ \E c \in 0..E2E_P01_COUNTER_MAX :
          LET p == E2E_P01Protect(E2E_LightSwitchConfig, [Counter |-> c],
                                  E2eBuffer(LIGHT_SWITCH_LOW_BEAM),
                                  FLM_CAN_LIGHTSWITCH_MSG_LEN)
          IN  /\ frameData' = p.data
              /\ checkState' = E2E_P01Check(E2E_LightSwitchConfig, checkState,
                                            p.data, FLM_CAN_LIGHTSWITCH_MSG_LEN)
    /\ framesChecked' = framesChecked + 1
    /\ forged' = forged + 1
    /\ inOrder' = FALSE
    /\ op' = "E2E_P01Check"
    /\ UNCHANGED <<sysVars, lastCall, protectState, flmVars, smVars, lrVars, hlVars,
                   swVars>>

E2eReinit ==
    /\ op # "E2E_P01CheckInit"
    /\ protectState' = E2E_P01ProtectInitState
    /\ checkState' = E2E_P01CheckInitState
    /\ framesChecked' = 0
    /\ inOrder' = TRUE
    /\ op' = "E2E_P01CheckInit"
    /\ UNCHANGED <<sysVars, lastCall, frameData, forged, flmVars, smVars, lrVars,
                   hlVars, swVars>>

E2eNext == E2eSend \/ E2eForge \/ E2eReinit

SpecE2E == Init /\ [][E2eNext]_vars

(***************************************************************************)
(* The E2E library called with arbitrary arguments: a null or a usable     *)
(* pointer for the configuration, the state and the buffer, length 0 or    *)
(* the frame length, and a configuration whose counter or CRC offset lies  *)
(* inside or outside the 4-byte frame.  The state and the buffer passed    *)
(* are the running protector or checker state and the frame produced last. *)
(***************************************************************************)
\* Configurations: the light-switch one, one with the counter in byte 5 and
\* one with the CRC in byte 4 (the frame has bytes 0..3)
E2eArgConfigs ==
    { NULL_PTR,
      Ptr(E2E_LightSwitchConfig),
      Ptr([E2E_LightSwitchConfig EXCEPT !.CounterOffset = 40]),
      Ptr([E2E_LightSwitchConfig EXCEPT !.CRCOffset = 32]) }

\* Contents of the four bytes of memory behind the buffer
E2eArgStrays == { <<0, 0, 0, 0>>, <<255, 0, 165, 255>> }

E2eArgLengths == {0, FLM_CAN_LIGHTSWITCH_MSG_LEN}

\* An offset of the configuration lies outside a frame of length bytes
E2eConfigOutOfRange(config, length) ==
    \/ config.CounterOffset \div 8 >= length
    \/ config.CRCOffset \div 8 >= length

E2eArgProtect ==
    /\ framesChecked < MaxE2eCalls
    /\ \E config \in E2eArgConfigs,
          state \in {NULL_PTR, Ptr(protectState)},
          data \in {NULL_PTR, Ptr(E2eBuffer(LIGHT_SWITCH_LOW_BEAM))},
          length \in E2eArgLengths, stray \in E2eArgStrays :
          LET r == E2E_P01ProtectCall(config, state, data, length, stray)
          IN  /\ protectState' = IF r.state.null THEN protectState
                                 ELSE r.state.at
              /\ frameData' = IF r.data.null THEN frameData ELSE r.data.at
              /\ lastCall' = [fn |-> "E2E_P01Protect", config |-> config,
                              state |-> state, data |-> data,
                              length |-> length, ret |-> r.ret,
                              stateAfter |-> r.state, dataAfter |-> r.data]
    /\ framesChecked' = framesChecked + 1
    /\ op' = "E2E_P01Protect"
    /\ UNCHANGED <<checkState, inOrder, forged, sysVars, flmVars, smVars,
                   lrVars, hlVars, swVars>>

E2eArgCheck ==
    /\ framesChecked < MaxE2eCalls
    /\ \E config \in E2eArgConfigs,
          state \in {NULL_PTR, Ptr(checkState)},
          data \in {NULL_PTR, Ptr(frameData)},
          length \in E2eArgLengths, stray \in E2eArgStrays :
          LET r == E2E_P01CheckCall(config, state, data, length, stray)
          IN  /\ checkState' = IF r.state.null THEN checkState
                               ELSE r.state.at
              /\ lastCall' = [fn |-> "E2E_P01Check", config |-> config,
                              state |-> state, data |-> data,
                              length |-> length, ret |-> r.ret,
                              stateAfter |-> r.state, dataAfter |-> data]
    /\ framesChecked' = framesChecked + 1
    /\ op' = "E2E_P01Check"
    /\ UNCHANGED <<protectState, frameData, inOrder, forged, sysVars, flmVars,
                   smVars, lrVars, hlVars, swVars>>

E2eArgNext == E2eArgProtect \/ E2eArgCheck

SpecE2EArg == Init /\ [][E2eArgNext]_vars

(***************************************************************************)
(* The AmbientSensor on its own: the ADC read of the light channel until   *)
(* a value is injected, then the injected value, which may change at most  *)
(* MaxLrSteps times, and a re-initialisation after an early tick.          *)
(***************************************************************************)
\* Injected ADC values: below the open-circuit threshold, two plausible
\* values more than the rate limit apart, above the short-circuit threshold
LrAdcValues == {50, 1500, 3000, 4000}

\* Outcomes of the ADC conversion of the light channel
LrAdcReads == { [ok |-> FALSE, value |-> 0], [ok |-> TRUE, value |-> 1500] }

LrTick ==
    /\ LightRequest_SystemTime < MaxLrTicks * FLM_AMBIENT_LIGHT_PERIOD_MS
    /\ \E adc \in (IF LightRequest_SimAdcEnabled
                   THEN {[ok |-> FALSE, value |-> 0]} ELSE LrAdcReads) :
           LightRequest_MainFunction(adc)
    /\ UNCHANGED <<sysVars, flmVars, smVars, hlVars, e2eVars, swVars>>

LrSimSet ==
    /\ lrSteps < MaxLrSteps
    /\ op # "LightRequest_SimSetAdcValue"
    /\ \E v \in LrAdcValues :
          /\ ~LightRequest_SimAdcEnabled \/ v # LightRequest_SimAdcValue
          /\ LightRequest_SimSetAdcValue(v)
    /\ UNCHANGED <<sysVars, flmVars, smVars, hlVars, e2eVars, swVars>>

LrReinit ==
    /\ op = "LightRequest_MainFunction"
    /\ LightRequest_SystemTime
          <= LrReinitTicks * FLM_AMBIENT_LIGHT_PERIOD_MS
    /\ LightRequest_Init
    /\ UNCHANGED <<sysVars, flmVars, smVars, hlVars, e2eVars, swVars>>

LrNext == LrTick \/ LrSimSet \/ LrReinit

SpecLR == Init /\ [][LrNext]_vars

(***************************************************************************)
(* The SwitchReceiver on its own, with a sending ECU that protects its     *)
(* frames with E2E_P01Protect.  Between two ticks at most one frame is     *)
(* handed to SwitchEvent_ProcessCanMessage: a fresh frame, a fresh frame   *)
(* with a corrupted CRC byte (which the receiver discards, so that the     *)
(* next frame arrives with a gap in the counter), or the previous frame    *)
(* once more.                                                              *)
(***************************************************************************)
\* Command codes the sender puts in byte 2 (4 is outside the valid range)
SwCommands == {LIGHT_SWITCH_LOW_BEAM, 4}

SwTick ==
    /\ SwitchEvent_SystemTime < MaxSwTicks * FLM_MAIN_FUNCTION_PERIOD_MS
    /\ SwitchEvent_MainFunction
    /\ UNCHANGED <<sysVars, senderState, flmVars, smVars, lrVars, hlVars,
                   e2eVars>>

SwSend ==
    /\ ~SwitchEvent_State.newMessageReceived
    /\ \E cmd \in SwCommands :
          LET p == E2E_P01Protect(E2E_LightSwitchConfig, senderState,
                                  E2eBuffer(cmd), FLM_CAN_LIGHTSWITCH_MSG_LEN)
          IN  /\ senderState' = p.state
              /\ pendingFresh' = SwitchEvent_IsCommandValid(cmd)
              /\ SwitchEvent_ProcessCanMessage(p.data,
                                               FLM_CAN_LIGHTSWITCH_MSG_LEN)
    /\ UNCHANGED <<sysVars, flmVars, smVars, lrVars, hlVars, e2eVars>>

SwSendCorrupted ==
    /\ ~SwitchEvent_State.newMessageReceived
    /\ LET p == E2E_P01Protect(E2E_LightSwitchConfig, senderState,
                               E2eBuffer(LIGHT_SWITCH_LOW_BEAM),
                               FLM_CAN_LIGHTSWITCH_MSG_LEN)
       IN  /\ senderState' = p.state
           /\ pendingFresh' = FALSE
           /\ SwitchEvent_ProcessCanMessage(
                  [p.data EXCEPT ![1] = Xor8(@, 1)],
                  FLM_CAN_LIGHTSWITCH_MSG_LEN)
    /\ UNCHANGED <<sysVars, flmVars, smVars, lrVars, hlVars, e2eVars>>

SwRepeat ==
    /\ ~SwitchEvent_State.newMessageReceived
    /\ pendingFresh' = FALSE
    /\ SwitchEvent_ProcessCanMessage(SwitchEvent_State.lastMessageData,
                                     FLM_CAN_LIGHTSWITCH_MSG_LEN)
    /\ UNCHANGED <<sysVars, senderState, flmVars, smVars, lrVars, hlVars,
                   e2eVars>>

\* Re-initialisation of the receiver right after one of its ticks
SwReinit ==
    /\ op = "SwitchEvent_MainFunction"
    /\ SwitchEvent_Init
    /\ UNCHANGED <<sysVars, senderState, flmVars, smVars, lrVars, hlVars,
                   e2eVars>>

SwNext == SwTick \/ SwSend \/ SwSendCorrupted \/ SwRepeat \/ SwReinit

SpecSW == Init /\ [][SwNext]_vars

(***************************************************************************)
(* Recovery of the SwitchReceiver.  During the first MaxSwBadTicks ticks   *)
(* the traffic is arbitrary, as in SpecSW; from then on the sender is      *)
(* correct and a fresh frame is pending at every tick, for up to           *)
(* MaxSwGoodTicks more ticks (the sender counter wraps twice).             *)
(***************************************************************************)
SwrBadPhase ==
    SwitchEvent_SystemTime < MaxSwBadTicks * FLM_MAIN_FUNCTION_PERIOD_MS

SwrTick ==
    /\ SwrBadPhase \/ pendingFresh
    /\ SwitchEvent_SystemTime
          < (MaxSwBadTicks + MaxSwGoodTicks) * FLM_MAIN_FUNCTION_PERIOD_MS
    /\ SwitchEvent_MainFunction
    /\ UNCHANGED <<sysVars, senderState, flmVars, smVars, lrVars, hlVars,
                   e2eVars>>

SwrSend ==
    /\ ~SwitchEvent_State.newMessageReceived
    /\ \E cmd \in (IF SwrBadPhase THEN SwCommands
                    ELSE {LIGHT_SWITCH_LOW_BEAM}) :
          LET p == E2E_P01Protect(E2E_LightSwitchConfig, senderState,
                                  E2eBuffer(cmd), FLM_CAN_LIGHTSWITCH_MSG_LEN)
          IN  /\ senderState' = p.state
              /\ pendingFresh' = SwitchEvent_IsCommandValid(cmd)
              /\ SwitchEvent_ProcessCanMessage(p.data,
                                               FLM_CAN_LIGHTSWITCH_MSG_LEN)
    /\ UNCHANGED <<sysVars, flmVars, smVars, lrVars, hlVars, e2eVars>>

SwrSendCorrupted ==
    /\ SwrBadPhase
    /\ SwSendCorrupted

SwrRepeat ==
    /\ SwrBadPhase
    /\ SwRepeat

SwrNext == SwrTick \/ SwrSend \/ SwrSendCorrupted \/ SwrRepeat

SpecSWR == Init /\ [][SwrNext]_vars

(***************************************************************************)
(* The whole system under System_RunScheduler (main.cpp).  One iteration   *)
(* per millisecond: System_SimulateInputs, then the 5 ms task when due,    *)
(* the 10 ms task when due (its component calls are separate steps), the   *)
(* 20 ms task when due, and the advance of System_TickMs.  The calls of    *)
(* the tasks that touch no modelled state (WdgM_MainFunction,              *)
(* BswM_MainFunction, Can_MainFunction_Read and _Write,                    *)
(* Com_MainFunctionTx, Dem_MainFunction) are left out.                     *)
(*                                                                         *)
(* The surroundings generalise System_SimulateInputs: a sending ECU that   *)
(* either hands a protected frame to Com_RxIndication before every 10 ms   *)
(* tick or stays silent, and an ambient ADC value.  They start as in       *)
(* System_Init (ambient 2000) with a sender of command Off; they may       *)
(* change once, before a 10 ms tick whose number is a multiple of          *)
(* SysEnvPeriodTicks, and may return to the initial ones before any later  *)
(* 10 ms tick.                                                             *)
(***************************************************************************)
\* Variant of SysOrder: the controller before the receiver
SysOrder_FlmFirst ==
    << "System_SimulateInputs", "System_Task_5ms", "Com_MainFunctionRx",
       "FLM_MainFunction", "SwitchEvent_MainFunction",
       "Headlight_MainFunction", "System_Task_20ms", "System_Advance" >>

\* The steps of one iteration in program order
SysOrder ==
    << "System_SimulateInputs", "System_Task_5ms", "Com_MainFunctionRx",
       "SwitchEvent_MainFunction", "FLM_MainFunction",
       "Headlight_MainFunction", "System_Task_20ms", "System_Advance" >>

\* The conditions of System_RunScheduler under which a step runs at time t
SysDue(step, t) ==
    CASE step = "System_Task_5ms" -> t % 5 = 0
      [] step \in {"Com_MainFunctionRx", "SwitchEvent_MainFunction",
                   "FLM_MainFunction", "Headlight_MainFunction"}
            -> t % FLM_MAIN_FUNCTION_PERIOD_MS = 0
      [] step = "System_Task_20ms" -> t % FLM_AMBIENT_LIGHT_PERIOD_MS = 0
      [] OTHER -> TRUE

RECURSIVE SysFirstDue(_, _)
SysFirstDue(i, t) ==
    IF SysDue(SysOrder[i], t) THEN SysOrder[i] ELSE SysFirstDue(i + 1, t)

\* The step that follows step pc in the iteration at time t
SysAfter(pc, t) ==
    LET i == CHOOSE k \in 1..Len(SysOrder) : SysOrder[k] = pc
    IN  SysFirstDue(i + 1, t)

\* What the surroundings can be: a sender of intact frames, a sender whose
\* frames arrive with a corrupted CRC byte, or a silent one, and the ambient
\* ADC value (2000 bright,
\* 1000 between the thresholds of the controller and of the aggregator,
\* 50 below the open-circuit threshold)
SysSenders ==
    { [on |-> TRUE, command |-> c, intact |-> TRUE] :
          c \in {LIGHT_SWITCH_OFF, LIGHT_SWITCH_LOW_BEAM} }
    \cup { [on |-> TRUE, command |-> LIGHT_SWITCH_OFF, intact |-> FALSE],
            [on |-> FALSE, command |-> LIGHT_SWITCH_OFF, intact |-> TRUE] }

SysAmbientValues == {2000, 1000, 50}

\* The phase of the surroundings after they become snd and amb
SysPhaseNext(snd, amb) ==
    LET same == snd = simSender /\ amb = Adc_SimValues.ambient
        tick == System_TickMs % FLM_MAIN_FUNCTION_PERIOD_MS = 0
    IN  IF same THEN {simPhase}
        ELSE IF /\ simPhase = "initial"
                /\ System_TickMs % (SysEnvPeriodTicks
                                      * FLM_MAIN_FUNCTION_PERIOD_MS) = 0
             THEN {"disturbed"}
        ELSE IF /\ simPhase = "disturbed"
                /\ tick
                /\ snd = SysInitialSender
                /\ amb = SysInitialAmbient
             THEN {"restored"}
        ELSE {}

\* System_SimulateInputs
SysSimulateInputs ==
    /\ sysPc = "System_SimulateInputs"
    /\ System_TickMs < MaxSysTicks * FLM_MAIN_FUNCTION_PERIOD_MS
    /\ \E snd \in SysSenders, amb \in SysAmbientValues :
          LET p == E2E_P01Protect(E2E_LightSwitchConfig, senderState,
                                  E2eBuffer(snd.command),
                                  FLM_CAN_LIGHTSWITCH_MSG_LEN)
              send == snd.on /\ System_TickMs % FLM_MAIN_FUNCTION_PERIOD_MS = 0
              frame == IF snd.intact THEN p.data
                       ELSE [p.data EXCEPT ![1] = Xor8(@, 1)]
          IN  /\ simPhase' \in SysPhaseNext(snd, amb)
              /\ simSender' = snd
              /\ Adc_SimValues' = [Adc_SimValues EXCEPT !.ambient = amb]
              /\ IF send
                 THEN /\ senderState' = p.state
                      /\ Com_IpduData' =
                             Com_RxIndication(Com_IpduData, frame,
                                              FLM_CAN_LIGHTSWITCH_MSG_LEN)
                      /\ delivered' = frame
                 ELSE /\ UNCHANGED <<senderState, Com_IpduData>>
                      /\ delivered' = <<>>
    /\ Headlight_SimSetFeedbackCurrent(
           IF Headlight_State.currentCommand # "OFF" THEN 5000 ELSE 0)
    /\ tickStart' = SysPublished(SwitchEvent_State, LightRequest_State,
                                 Headlight_State)
    /\ sysPc' = SysAfter(sysPc, System_TickMs)
    /\ UNCHANGED <<System_TickMs, SwitchEvent_State, SwitchEvent_SystemTime,
                   fed, pendingFresh, idleTicks, goodTicks, flmVars, smVars,
                   lrVars, e2eVars>>

\* System_Task_5ms: SafetyMonitor_MainFunction
SysTask5ms ==
    /\ sysPc = "System_Task_5ms"
    /\ SafetyMonitor_MainFunction(
           SysPublished(SwitchEvent_State, LightRequest_State,
                        Headlight_State))
    /\ sysPc' = SysAfter(sysPc, System_TickMs)
    /\ UNCHANGED <<System_TickMs, Com_IpduData, Adc_SimValues, simSender,
                   simPhase, delivered, tickStart, hlVars, lrVars, e2eVars,
                   swVars>>

\* System_Task_10ms: Com_MainFunctionRx forwards a new frame to the
\* SwitchReceiver
SysComMainFunctionRx ==
    /\ sysPc = "Com_MainFunctionRx"
    /\ IF Com_IpduData.newData
       THEN /\ Com_IpduData' = [Com_IpduData EXCEPT !.newData = FALSE]
            /\ SwitchEvent_ProcessCanMessage(Com_IpduData.data,
                                             Com_IpduData.length)
            /\ pendingFresh' = simSender.intact
       ELSE /\ op' = "Com_MainFunctionRx"
            /\ UNCHANGED <<Com_IpduData, swVars>>
    /\ sysPc' = SysAfter(sysPc, System_TickMs)
    /\ UNCHANGED <<System_TickMs, Adc_SimValues, simSender, simPhase,
                   delivered, tickStart, senderState, flmVars, smVars, hlVars,
                   lrVars, e2eVars>>

\* System_Task_10ms: SwitchEvent_MainFunction
SysSwitchEvent ==
    /\ sysPc = "SwitchEvent_MainFunction"
    /\ SwitchEvent_MainFunction
    /\ sysPc' = SysAfter(sysPc, System_TickMs)
    /\ UNCHANGED <<System_TickMs, Com_IpduData, Adc_SimValues, simSender,
                   simPhase, delivered, tickStart, senderState, flmVars,
                   smVars, hlVars, lrVars, e2eVars>>

\* System_Task_10ms: FLM_MainFunction, whose FLM_ReadInputs calls the
\* getters of the SwitchReceiver and of the AmbientSensor
SysFlm ==
    /\ sysPc = "FLM_MainFunction"
    /\ FLM_MainFunction(
           [ls |-> SwitchEvent_State.lightSwitchStatus,
            e2e |-> SwitchEvent_State.e2eStatus,
            timeout |-> SwitchEvent_State.timeoutActive],
           [al |-> LightRequest_State.ambientLight,
            status |-> LightRequest_State.signalStatus])
    /\ sysPc' = SysAfter(sysPc, System_TickMs)
    /\ UNCHANGED <<System_TickMs, Com_IpduData, Adc_SimValues, simSender,
                   simPhase, delivered, tickStart, smVars, hlVars, lrVars,
                   e2eVars, swVars>>

\* System_Task_10ms: Headlight_MainFunction with FLM_GetHeadlightCommand
SysHeadlight ==
    /\ sysPc = "Headlight_MainFunction"
    /\ Headlight_MainFunction(FLM_State.headlightCommand,
                              [ok |-> TRUE, value |-> Adc_SimValues.current])
    /\ sysPc' = SysAfter(sysPc, System_TickMs)
    /\ UNCHANGED <<System_TickMs, Com_IpduData, Adc_SimValues, simSender,
                   simPhase, delivered, tickStart, flmVars, smVars, lrVars,
                   e2eVars, swVars>>

\* System_Task_20ms: LightRequest_MainFunction reads the ambient channel
SysTask20ms ==
    /\ sysPc = "System_Task_20ms"
    /\ LightRequest_MainFunction([ok |-> TRUE,
                                  value |-> Adc_SimValues.ambient])
    /\ sysPc' = SysAfter(sysPc, System_TickMs)
    /\ UNCHANGED <<System_TickMs, Com_IpduData, Adc_SimValues, simSender,
                   simPhase, delivered, tickStart, flmVars, smVars, hlVars,
                   e2eVars, swVars>>

\* System_RunScheduler: System_TickMs += FLM_SYSTEM_TICK_MS
SysAdvance ==
    /\ sysPc = "System_Advance"
    /\ System_TickMs' = System_TickMs + FLM_SYSTEM_TICK_MS
    /\ sysPc' = "System_SimulateInputs"
    /\ op' = "System_Advance"
    /\ UNCHANGED <<Com_IpduData, Adc_SimValues, simSender, simPhase,
                   delivered, tickStart, flmVars, smVars, hlVars, lrVars,
                   e2eVars, swVars>>

SysNext ==
    \/ SysSimulateInputs
    \/ SysTask5ms
    \/ SysComMainFunctionRx
    \/ SysSwitchEvent
    \/ SysFlm
    \/ SysHeadlight
    \/ SysTask20ms
    \/ SysAdvance

SpecSYS == Init /\ [][SysNext]_vars

(***************************************************************************)
(* Properties of the FlmController (under SpecFLM)                         *)
(***************************************************************************)
\* C1: once the controller state is Safe it is Safe after every later step,
\* whatever the switch report, ambient reading and trigger are; the only
\* step that leaves Safe is FLM_Init.
C1_SafeAbsorbing ==
    [][(FLM_State.currentState = "SAFE" /\ FLM_State'.currentState # "SAFE")
          => op' = "FLM_Init"]_vars

\* C1 case: a tick executed in Safe (entered by the Degraded timeout, so no
\* trigger is pending) with both inputs valid, after which the state is Safe.
C1_Witness ==
    /\ op = "FLM_MainFunction"
    /\ FLM_State.currentState = "SAFE"
    /\ FLM_State.previousState = "SAFE"
    /\ ~FLM_ExternalSafeStateTrigger
    /\ FLM_AreAllInputsValid(FLM_State)

\* C3: when the external safe-state trigger is raised, the FLM tick that
\* follows ends in Safe, from Init, Normal and Degraded alike and whatever
\* the validity of the inputs.
C3_TriggerForcesSafe ==
    [][(FLM_ExternalSafeStateTrigger /\ op' = "FLM_MainFunction")
          => FLM_State'.currentState = "SAFE"]_vars

\* C3 case: a tick that went from Degraded to Safe under a raised trigger
\* although both inputs had become valid again.
C3_Witness ==
    /\ op = "FLM_MainFunction"
    /\ FLM_ExternalSafeStateTrigger
    /\ FLM_State.previousState = "DEGRADED"
    /\ FLM_State.currentState = "SAFE"
    /\ FLM_AreAllInputsValid(FLM_State)

\* The Safe-state fallback command for the ambient reading held in st
SafeFallbackCommand(st) ==
    IF ~st.ambientLight.isValid THEN "LOW_BEAM"
    ELSE IF st.ambientLight.adcValue < FLM_AMBIENT_THRESHOLD_ON
         THEN "LOW_BEAM"
         ELSE "OFF"

\* C5: at the end of every FLM tick in which the state is Safe, the tick
\* that enters Safe included, the headlight command is LowBeam for an
\* invalid ambient reading, LowBeam for a valid one below 800, Off
\* otherwise, and so never HighBeam.
C5_SafeCommand ==
    (op = "FLM_MainFunction" /\ FLM_State.currentState = "SAFE")
        => /\ FLM_State.headlightCommand = SafeFallbackCommand(FLM_State)
           /\ FLM_State.headlightCommand # "HIGH_BEAM"

\* C17: a tick that starts in Degraded without external trigger and samples
\* at least one invalid input enters Safe when the time since the tick that
\* entered Degraded is strictly greater than 100 ms and stays in Degraded
\* otherwise; it enters Safe at the 11th tick after entry (110 ms).
C17_DegradedTimeout ==
    [][(/\ op' = "FLM_MainFunction"
        /\ FLM_State.currentState = "DEGRADED"
        /\ ~FLM_ExternalSafeStateTrigger
        /\ FLM_IsAnyInputInvalid(FLM_State'))
       => LET elapsed == FLM_State'.currentTime - degradedSince
          IN  /\ degradedSince # -1
              /\ IF elapsed > FLM_FTTI_MS - FLM_SAFE_STATE_TRANSITION_MS
                 THEN /\ FLM_State'.currentState = "SAFE"
                      /\ elapsed = 11 * FLM_MAIN_FUNCTION_PERIOD_MS
                 ELSE FLM_State'.currentState = "DEGRADED"
      ]_vars

\* Safe entered from Degraded by the timeout, 110 ms after entry, with an
\* input still invalid and no external trigger.
C17_Witness ==
    /\ op = "FLM_MainFunction"
    /\ FLM_State.currentState = "SAFE"
    /\ FLM_State.previousState = "DEGRADED"
    /\ ~FLM_ExternalSafeStateTrigger
    /\ FLM_IsAnyInputInvalid(FLM_State)
    /\ degradedSince # -1
    /\ FLM_State.currentTime - degradedSince
          = 11 * FLM_MAIN_FUNCTION_PERIOD_MS

\* C18: a tick that starts in Normal without external trigger enters
\* Degraded exactly when it completes 3 consecutive ticks with at least one
\* input invalid, and stays in Normal otherwise; a tick with all inputs
\* valid restarts the count.
C18_DegradedAfterMaxErrors ==
    [][(/\ op' = "FLM_MainFunction"
        /\ FLM_State.currentState = "NORMAL"
        /\ ~FLM_ExternalSafeStateTrigger)
       => /\ invalidRun' = IF FLM_IsAnyInputInvalid(FLM_State')
                           THEN invalidRun + 1 ELSE 0
          /\ IF invalidRun' = FLM_MAX_CONSECUTIVE_ERRORS
             THEN FLM_State'.currentState = "DEGRADED"
             ELSE /\ invalidRun' < FLM_MAX_CONSECUTIVE_ERRORS
                  /\ FLM_State'.currentState = "NORMAL"
      ]_vars

\* Degraded entered from Normal at the third consecutive invalid tick, after
\* an earlier run of invalid ticks was cut short by a valid one (the entry
\* is later than the fourth tick, the earliest possible one).
C18_Witness ==
    /\ op = "FLM_MainFunction"
    /\ FLM_State.currentState = "DEGRADED"
    /\ FLM_State.previousState = "NORMAL"
    /\ ~FLM_ExternalSafeStateTrigger
    /\ invalidRun = FLM_MAX_CONSECUTIVE_ERRORS
    /\ degradedSince = FLM_State.currentTime
    /\ FLM_State.currentTime
          = (2 * FLM_MAX_CONSECUTIVE_ERRORS) * FLM_MAIN_FUNCTION_PERIOD_MS

\* C19: a tick that starts in Degraded without external trigger and samples
\* a valid switch report and a valid ambient reading ends in Normal,
\* however long the controller has been in Degraded.
C19_DegradedRecovers ==
    [][(/\ op' = "FLM_MainFunction"
        /\ FLM_State.currentState = "DEGRADED"
        /\ ~FLM_ExternalSafeStateTrigger
        /\ FLM_State'.lightSwitch.isValid
        /\ FLM_State'.ambientLight.isValid)
       => FLM_State'.currentState = "NORMAL"
      ]_vars

\* Normal regained from Degraded at the tick 110 ms after entry, the tick
\* at which the timeout would otherwise have fired.
C19_Witness ==
    /\ op = "FLM_MainFunction"
    /\ FLM_State.currentState = "NORMAL"
    /\ FLM_State.previousState = "DEGRADED"
    /\ ~FLM_ExternalSafeStateTrigger
    /\ degradedSince # -1
    /\ FLM_State.currentTime - degradedSince
          = 11 * FLM_MAIN_FUNCTION_PERIOD_MS

\* C20: a tick that starts in Init without external trigger ends in Normal
\* if the sampled switch report and ambient reading are both valid, and
\* otherwise stays in Init; whenever the controller is in Init the
\* headlight command is Off.
C20_InitToNormal ==
    [][/\ (/\ op' = "FLM_MainFunction"
           /\ FLM_State.currentState = "INIT"
           /\ ~FLM_ExternalSafeStateTrigger)
          => IF /\ FLM_State'.lightSwitch.isValid
                /\ FLM_State'.ambientLight.isValid
             THEN FLM_State'.currentState = "NORMAL"
             ELSE FLM_State'.currentState = "INIT"
       /\ FLM_State'.currentState = "INIT"
             => FLM_State'.headlightCommand = "OFF"
      ]_vars

\* Normal entered from Init at the third tick, after two ticks that stayed
\* in Init.
C20_Witness ==
    /\ op = "FLM_MainFunction"
    /\ FLM_State.currentState = "NORMAL"
    /\ FLM_State.previousState = "INIT"
    /\ ~FLM_ExternalSafeStateTrigger
    /\ FLM_State.currentTime = 2 * FLM_MAIN_FUNCTION_PERIOD_MS
    /\ FLM_State.headlightCommand # "OFF"

\* The Auto-mode hysteresis rule: lights that are off turn on when the
\* ambient value is below the on-threshold, lights that are on turn off when
\* it is above the off-threshold, and in between the state is kept.
HysteresisOn(on, adc) ==
    IF on THEN ~(adc > FLM_AMBIENT_THRESHOLD_OFF)
    ELSE adc < FLM_AMBIENT_THRESHOLD_ON

\* C21: a tick that ends in Degraded with an invalid switch report and a
\* valid ambient reading leaves the lights-on flag and the headlight command
\* as the hysteresis rule gives them from the lights-on flag of the previous
\* tick, whatever command code the invalid report carries.
C21_DegradedAutoFallback ==
    [][(/\ op' = "FLM_MainFunction"
        /\ FLM_State.isInitialized
        /\ FLM_State'.currentState = "DEGRADED"
        /\ ~FLM_State'.lightSwitch.isValid
        /\ FLM_State'.ambientLight.isValid)
       => LET on == HysteresisOn(FLM_State.lightsCurrentlyOn,
                                 FLM_State'.ambientLight.adcValue)
          IN  /\ FLM_State'.lightsCurrentlyOn = on
              /\ FLM_State'.headlightCommand
                    = IF on THEN "LOW_BEAM" ELSE "OFF"
      ]_vars

\* C22: a tick that ends in Normal with a valid Auto switch report and a
\* valid ambient reading turns lights that were off on (LowBeam) exactly
\* when the ambient value is < 800, turns lights that were on off exactly
\* when it is > 1000, and keeps the on/off state for values from 800 to
\* 1000.
C22_AutoHysteresis ==
    [][(/\ op' = "FLM_MainFunction"
        /\ FLM_State.isInitialized
        /\ FLM_State'.currentState = "NORMAL"
        /\ FLM_State'.lightSwitch.isValid
        /\ FLM_State'.lightSwitch.command = LIGHT_SWITCH_AUTO
        /\ FLM_State'.ambientLight.isValid)
       => LET on == HysteresisOn(FLM_State.lightsCurrentlyOn,
                                 FLM_State'.ambientLight.adcValue)
          IN  /\ FLM_State'.lightsCurrentlyOn = on
              /\ FLM_State'.headlightCommand
                    = IF on THEN "LOW_BEAM" ELSE "OFF"
      ]_vars

\* Normal, Auto, ambient value 1000 (between the thresholds, at the upper
\* one) and the lights kept on with LowBeam.
C22_Witness ==
    /\ op = "FLM_MainFunction"
    /\ FLM_State.currentState = "NORMAL"
    /\ FLM_State.previousState = "NORMAL"
    /\ FLM_State.lightSwitch.isValid
    /\ FLM_State.lightSwitch.command = LIGHT_SWITCH_AUTO
    /\ FLM_State.ambientLight.isValid
    /\ FLM_State.ambientLight.adcValue = FLM_AMBIENT_THRESHOLD_OFF
    /\ FLM_State.lightsCurrentlyOn
    /\ FLM_State.headlightCommand = "LOW_BEAM"

\* C39: at the end of a controller tick that sampled an invalid switch report
\* and ends in Normal or in Degraded, the headlight command is not HighBeam.
C39_NoHighBeamOnInvalidReport ==
    (/\ op = "FLM_MainFunction"
     /\ ~FLM_State.lightSwitch.isValid
     /\ FLM_State.currentState \in {"NORMAL", "DEGRADED"})
       => FLM_State.headlightCommand # "HIGH_BEAM"

(***************************************************************************)
(* Properties of the aggregator (under SpecSM)                             *)
(***************************************************************************)
\* C2: once the aggregator has latched safe state, every later aggregator
\* tick and every later SafetyMonitor_TriggerSafeState call, with any
\* reason, leaves the latch set, the reason as captured by the first
\* trigger and the global status SafeState; only SafetyMonitor_Init exits.
C2_LatchPersists ==
    [][(SafetyMonitor_State.inSafeState /\ op' # "SafetyMonitor_Init")
          => /\ SafetyMonitor_State'.inSafeState
             /\ SafetyMonitor_State'.safeStateReason
                    = SafetyMonitor_State.safeStateReason
             /\ SafetyMonitor_State'.globalStatus = "SAFE_STATE"]_vars

\* C2 case: latched by the aggregator itself (MultiFault), then a tick in
\* which all faults are gone, then an outside trigger call.
C2_Witness ==
    /\ op = "SafetyMonitor_TriggerSafeState"
    /\ SafetyMonitor_State.inSafeState
    /\ SafetyMonitor_State.safeStateReason = "MULTI_FAULT"
    /\ SafetyMonitor_State.currentTime > SafetyMonitor_State.safeStateEntryTime
    /\ SafetyMonitor_State.totalFaultCount = 0
    /\ SafetyMonitor_State.globalStatus = "SAFE_STATE"

\* C4: if the fault count F has been above 0 at every aggregator tick since
\* the tick at which it rose from 0 (faultSince), safe state is latched at
\* the latest by the first tick at which 200 ms have elapsed since then;
\* the timer is armed exactly while F > 0 and keeps the first-fault time
\* through changes of F between non-zero values; and the tick that latches
\* at the FTTI tags the reason Timeout unless the MultiFault, E2E or WdgM
\* trigger fires in that same tick.
C4_FTTI ==
    /\ [](/\ (faultSince # -1
               /\ SafetyMonitor_State.currentTime - faultSince
                     >= SAFETYMONITOR_FTTI_MS)
              => SafetyMonitor_State.inSafeState
          /\ SafetyMonitor_State.fttiActive <=> (faultSince # -1)
          /\ SafetyMonitor_State.fttiActive
              => SafetyMonitor_State.firstFaultTime = faultSince)
    /\ [][(/\ op' = "SafetyMonitor_MainFunction"
           /\ ~SafetyMonitor_State.inSafeState
           /\ SafetyMonitor_State'.inSafeState
           /\ SafetyMonitor_State'.totalFaultCount
                 < SAFETYMONITOR_MAX_FAULT_COUNT
           /\ SafetyMonitor_State'.e2eSmStatus = "VALID"
           /\ SafetyMonitor_State'.wdgmGlobalStatus \notin {"FAILED", "EXPIRED"})
          => /\ SafetyMonitor_State'.safeStateReason = "TIMEOUT"
             /\ faultSince' # -1
             /\ SafetyMonitor_State'.currentTime
                   = faultSince' + SAFETYMONITOR_FTTI_MS]_vars

\* C4 case: F was 0 at the tick at 5 ms, rose at 10 ms, stayed above 0 and
\* the tick at 210 ms latched safe state with reason Timeout.
C4_Witness ==
    /\ op = "SafetyMonitor_MainFunction"
    /\ faultSince = 2 * FLM_SAFETY_MONITOR_PERIOD_MS
    /\ SafetyMonitor_State.inSafeState
    /\ SafetyMonitor_State.safeStateReason = "TIMEOUT"
    /\ SafetyMonitor_State.safeStateEntryTime
          = faultSince + SAFETYMONITOR_FTTI_MS
    /\ SafetyMonitor_State.currentTime = SafetyMonitor_State.safeStateEntryTime
    /\ SafetyMonitor_State.totalFaultCount = 2

\* C32: a tick that reads a valid ambient reading classifies day if and
\* only if its filtered value is > 1500, a tick that reads an invalid one
\* keeps the classification (so after every tick the classification is that
\* of the most recent valid reading); and after a tick in safe state the
\* safe-state command is Off when the classification is day and LowBeam
\* otherwise.
C32_DayNightAndSafeCommand ==
    [][(/\ op' = "SafetyMonitor_MainFunction"
        /\ SafetyMonitor_State.isInitialized)
       => LET new == SafetyMonitor_State'
              seen == published'.al
          IN  /\ new.isDaytime
                    = (IF seen.isValid
                       THEN seen.adcValue > SAFETYMONITOR_DAY_THRESHOLD
                       ELSE SafetyMonitor_State.isDaytime)
              /\ new.inSafeState
                    => new.safeStateCommand
                          = (IF new.isDaytime THEN "OFF" ELSE "LOW_BEAM")
      ]_vars

\* Reached: in safe state at night, the last reading invalid: the
\* classification is the one of an earlier valid reading and the command is
\* LowBeam
C32_Witness ==
    /\ op = "SafetyMonitor_MainFunction"
    /\ SafetyMonitor_State.inSafeState
    /\ ~SafetyMonitor_State.isDaytime
    /\ ~published.al.isValid
    /\ SafetyMonitor_State.safeStateCommand = "LOW_BEAM"

(***************************************************************************)
(* Properties of the OutputMonitor (under SpecHL)                          *)
(***************************************************************************)
\* C6: once a Short fault has been confirmed, both output lines are
\* de-energised at the end of that tick and of every later tick until
\* re-initialisation, whatever command arrives and whatever current is
\* sensed afterwards.
C6_ShortKeepsOutputsOff ==
    (op = "Headlight_MainFunction" /\ shortConfirmed)
        => /\ ~Dio_Levels.lowBeam
           /\ ~Dio_Levels.highBeam

\* C13: a tick that starts outside safe state and observes that the E2E
\* supervisor has been different from Valid at every tick for 100 ms or
\* more latches safe state, with reason E2eFailure unless the MultiFault or
\* the watchdog trigger applies in that tick; and a tick latches reason
\* E2eFailure only if the supervisor was observed different from Valid at
\* every tick of the preceding 100 ms.
C13_E2ETimeoutLatch ==
    [][(/\ op' = "SafetyMonitor_MainFunction"
        /\ ~SafetyMonitor_State.inSafeState)
       => LET new == SafetyMonitor_State'
              sustained ==
                  /\ nonValidSince' # -1
                  /\ new.currentTime - nonValidSince'
                        >= SAFETYMONITOR_E2E_TIMEOUT_MS
          IN  /\ sustained
                   => /\ new.inSafeState
                      /\ (/\ new.totalFaultCount
                                < SAFETYMONITOR_MAX_FAULT_COUNT
                          /\ new.wdgmGlobalStatus
                                \notin {"FAILED", "EXPIRED"})
                             => new.safeStateReason = "E2E_FAILURE"
              /\ (new.inSafeState /\ new.safeStateReason = "E2E_FAILURE")
                   => /\ sustained
                      /\ new.currentTime
                            = nonValidSince' + SAFETYMONITOR_E2E_TIMEOUT_MS
      ]_vars

\* C13 case: the supervisor was observed Invalid from the tick at 10 ms on
\* and the tick at 110 ms latched safe state with reason E2eFailure.
C13_Witness ==
    /\ op = "SafetyMonitor_MainFunction"
    /\ nonValidSince = 2 * FLM_SAFETY_MONITOR_PERIOD_MS
    /\ SafetyMonitor_State.inSafeState
    /\ SafetyMonitor_State.safeStateReason = "E2E_FAILURE"
    /\ SafetyMonitor_State.safeStateEntryTime
          = nonValidSince + SAFETYMONITOR_E2E_TIMEOUT_MS
    /\ SafetyMonitor_State.currentTime = SafetyMonitor_State.safeStateEntryTime

\* The watchdog global status an aggregator tick reads
ObservedWdgm ==
    IF SafetyMonitor_SimWdgmEnabled THEN SafetyMonitor_SimWdgmStatus ELSE "OK"

\* The number F of active faults among: switch report invalid, ambient
\* reading invalid, output fault other than None, watchdog other than Ok
ObservedFaults ==
    Cardinality({ i \in 1..4 :
        \/ i = 1 /\ ~published.ls.isValid
        \/ i = 2 /\ ~published.al.isValid
        \/ i = 3 /\ published.hl # "NONE"
        \/ i = 4 /\ ObservedWdgm # "OK" })

C15_WdgmBeforeE2E ==
    [][(/\ op' = "SafetyMonitor_MainFunction"
        /\ ~SafetyMonitor_State.inSafeState
        /\ ObservedFaults' < SAFETYMONITOR_MAX_FAULT_COUNT
        /\ ObservedWdgm' \in {"FAILED", "EXPIRED"}
        /\ nonValidSince' # -1
        /\ SafetyMonitor_State'.currentTime - nonValidSince'
              >= SAFETYMONITOR_E2E_TIMEOUT_MS)
       => /\ SafetyMonitor_State'.inSafeState
          /\ SafetyMonitor_State'.safeStateReason = "WDGM_FAILURE"
      ]_vars

\* C16: every tick that starts outside safe state and reads the watchdog
\* status Failed latches safe state with reason WdgmFailure, the first tick
\* after initialisation included.
C16_WdgmFailedLatchesWdgmFailure ==
    [][(/\ op' = "SafetyMonitor_MainFunction"
        /\ ~SafetyMonitor_State.inSafeState
        /\ ObservedWdgm' = "FAILED")
       => /\ SafetyMonitor_State'.inSafeState
          /\ SafetyMonitor_State'.safeStateReason = "WDGM_FAILURE"
      ]_vars

\* C23: once the reported fault status is OpenLoad or Short (a confirmed
\* output fault), no step other than the re-initialisation makes it None
\* again, whatever commands and currents follow.
C23_ConfirmedFaultLatched ==
    [][(/\ Headlight_State.faultStatus \in {"OPEN_LOAD", "SHORT"}
        /\ op' # "Headlight_Init")
       => Headlight_State'.faultStatus # "NONE"
      ]_vars

\* An OpenLoad fault still reported by a tick whose command is Off and whose
\* current is below the over-current limit: both debounce counters are 0.
C23_Witness ==
    /\ op = "Headlight_MainFunction"
    /\ Headlight_State.faultStatus = "OPEN_LOAD"
    /\ Headlight_State.requestedCommand = "OFF"
    /\ Headlight_State.openLoadCounter = 0
    /\ Headlight_State.shortCircuitCounter = 0

\* C31: the fault status becomes OpenLoad only at a tick whose command is
\* not Off, at which FaultDetectWindow (20 ms) or more has elapsed since the
\* last command change, and whose sensed current is below 50 mA for the
\* FaultConfirmCycles-th (2nd) evaluated observation in a row; never at a
\* tick whose command is Off or that lies inside the window.
C31_OpenLoadConfirmation ==
    [][(/\ op' = "Headlight_MainFunction"
        /\ Headlight_State.faultStatus # "OPEN_LOAD"
        /\ Headlight_State'.faultStatus = "OPEN_LOAD")
       => /\ Headlight_State'.requestedCommand # "OFF"
          /\ Sub32(Headlight_State'.currentTime,
                   Headlight_State'.commandChangeTime)
                >= FLM_HEADLIGHT_FAULT_DETECT_MS
          /\ Headlight_State'.feedbackCurrent < FLM_HEADLIGHT_OPEN_LOAD_MA
          /\ lowRun' >= HEADLIGHT_FAULT_CONFIRM_CYCLES
      ]_vars

\* Reached: OpenLoad confirmed after a command change from LowBeam to
\* HighBeam (the change is stamped later than time 0)
C31_Witness ==
    /\ op = "Headlight_MainFunction"
    /\ Headlight_State.faultStatus = "OPEN_LOAD"
    /\ Headlight_State.requestedCommand = "HIGH_BEAM"
    /\ Headlight_State.commandChangeTime > 0
    /\ lowRun >= HEADLIGHT_FAULT_CONFIRM_CYCLES

\* The output lines of the table: <<low-beam line, high-beam line>>
C33_Lines(cmd) ==
    IF cmd = "OFF" THEN <<FALSE, FALSE>>
    ELSE IF cmd = "LOW_BEAM" THEN <<TRUE, FALSE>>
    ELSE <<TRUE, TRUE>>

\* C33: at the end of every tick in which no Short fault is confirmed (the
\* sensed current is not above the maximum for the FaultConfirmCycles-th
\* time in a row) the two output lines, and the output flags of the state,
\* are those of the command read in that tick; and the high-beam line is
\* never energised while the low-beam line is de-energised.
C33_OutputsMatchCommand ==
    op = "Headlight_MainFunction"
       => /\ ~(/\ Headlight_State.feedbackCurrent
                     > FLM_HEADLIGHT_MAX_CURRENT_MA
                /\ Headlight_State.shortCircuitCounter
                     >= HEADLIGHT_FAULT_CONFIRM_CYCLES)
               => /\ <<Dio_Levels.lowBeam, Dio_Levels.highBeam>>
                        = C33_Lines(Headlight_State.requestedCommand)
                  /\ <<Headlight_State.lowBeamOutput,
                        Headlight_State.highBeamOutput>>
                        = C33_Lines(Headlight_State.requestedCommand)
          /\ Dio_Levels.highBeam => Dio_Levels.lowBeam

\* Reached: a tick with command HighBeam and both lines energised, after a
\* Short fault was confirmed in an earlier tick
C33_Witness ==
    /\ op = "Headlight_MainFunction"
    /\ shortConfirmed
    /\ Headlight_State.requestedCommand = "HIGH_BEAM"
    /\ Dio_Levels.lowBeam
    /\ Dio_Levels.highBeam

(***************************************************************************)
(* Properties of the AmbientSensor (under SpecLR)                          *)
(***************************************************************************)
\* C24: a tick that follows a reported OpenCircuit, ShortCircuit or
\* Plausibility status, whose filtered value is within [100, 3995], whose
\* plausibility fault is not set and whose buffer holds 4 samples, ends with
\* status Valid and the validity flag true.
C24_AmbientFaultSelfClears ==
    [][(/\ op' = "LightRequest_MainFunction"
        /\ LightRequest_State.isInitialized
        /\ LightRequest_State.signalStatus
              \in {"OPEN_CIRCUIT", "SHORT_CIRCUIT", "PLAUSIBILITY"}
        /\ LightRequest_State'.adcFilteredValue >= FLM_AMBIENT_OPEN_CIRCUIT
        /\ LightRequest_State'.adcFilteredValue <= FLM_AMBIENT_SHORT_CIRCUIT
        /\ ~LightRequest_State'.plausibilityFault
        /\ LightRequest_State'.adcSampleCount >= FLM_ADC_SAMPLES)
       => /\ LightRequest_State'.signalStatus = "VALID"
          /\ LightRequest_State'.ambientLight.isValid
      ]_vars

\* C25: at the end of a tick whose filtered value is < 100 the status is
\* OpenCircuit and the reading invalid; at the end of a tick whose filtered
\* value is > 3995 the status is ShortCircuit and the reading invalid.
C25_ElectricalFaultStatus ==
    op = "LightRequest_MainFunction"
       => /\ LightRequest_State.adcFilteredValue < FLM_AMBIENT_OPEN_CIRCUIT
             => /\ LightRequest_State.signalStatus = "OPEN_CIRCUIT"
                /\ ~LightRequest_State.ambientLight.isValid
          /\ LightRequest_State.adcFilteredValue > FLM_AMBIENT_SHORT_CIRCUIT
             => /\ LightRequest_State.signalStatus = "SHORT_CIRCUIT"
                /\ ~LightRequest_State.ambientLight.isValid

\* C26: at the end of the 20th tick after a step of the injected value that
\* is larger than the rate limit, follows 10 or more ticks of a constant
\* value and is held since, the plausibility fault is active.
C26_StepRaisesPlausibility ==
    (/\ op = "LightRequest_MainFunction"
     /\ stepStable
     /\ heldTicks = 20)
       => LightRequest_State.plausibilityFault

C11_TimeoutOnlyAfterIdleTicks ==
    (op = "SwitchEvent_MainFunction" /\ SwitchEvent_State.timeoutActive)
        => idleTicks >= SWITCHEVENT_TIMEOUT_CYCLES

\* C12: whatever state the receiver is in (supervisor Invalid, timeout flag
\* set, any last valid counter), once RecoveryTicks ticks in a row have each
\* found a fresh frame of a correct sender pending, the switch report is
\* valid at the end of the tick, and it is valid at the end of every further
\* such tick.
C12_RecoversOnValidTraffic ==
    (op = "SwitchEvent_MainFunction" /\ goodTicks >= RecoveryTicks)
        => SwitchEvent_State.lightSwitchStatus.isValid

\* C12 case: the correct traffic has lasted RecoveryTicks ticks and one more
\* round of the sender counter, frames were lost on the way, and the report
\* is valid.
C12_Witness ==
    /\ op = "SwitchEvent_MainFunction"
    /\ goodTicks >= RecoveryTicks
    /\ SwitchEvent_State.lightSwitchStatus.isValid
    /\ SwitchEvent_State.e2eCheckState.LostData > 0
    /\ SwitchEvent_State.currentTimestamp
          >= (MaxSwBadTicks + RecoveryTicks + E2E_P01_COUNTER_WRAP)
               * FLM_MAIN_FUNCTION_PERIOD_MS

\* The statuses that are not positive: each of them increments the
\* supervisor's error count
E2E_ErrorStatus ==
    {"NONEWDATA", "WRONGCRC", "SYNC", "WRONGSEQUENCE", "REPEATED"}

\* C10: the supervisor goes from Init to Valid only at a tick where the last
\* MinOkStateInit (2) statuses fed to it were all positive, and from Valid
\* to Invalid only at a tick where the last MaxErrorStateValid (2) statuses
\* fed to it were errors (so with no positive status in between).
C10_SupervisorTransitions ==
    [][LET old == SwitchEvent_State.e2eSmState.SMState
           new == SwitchEvent_State'.e2eSmState.SMState
       IN  /\ (old = "INIT" /\ new = "VALID")
                => /\ Len(fed') >= E2E_LightSwitchSMConfig.MinOkStateInit
                   /\ \A i \in 1..Len(fed') : fed'[i] \in E2E_PositiveStatus
           /\ (old = "VALID" /\ new = "INVALID")
                => /\ Len(fed') >= E2E_LightSwitchSMConfig.MaxErrorStateValid
                   /\ \A i \in 1..Len(fed') : fed'[i] \in E2E_ErrorStatus
      ]_vars

\* C27: when a frame passes the E2E check (verdict Initial, Ok or
\* OkSomeLost) but carries a command code greater than 3, the switch report
\* at the end of that tick is invalid and its command field is the one it
\* had before the tick.
C27_BadCommandInvalidates ==
    [][(/\ op' = "SwitchEvent_MainFunction"
        /\ SwitchEvent_State.isInitialized
        /\ SwitchEvent_State.newMessageReceived
        /\ SwitchEvent_State'.e2eStatus \in E2E_PositiveStatus
        /\ SwitchEvent_State.lastMessageData[COM_LIGHTSWITCH_CMD_BYTE + 1]
              > LIGHT_SWITCH_AUTO)
       => /\ ~SwitchEvent_State'.lightSwitchStatus.isValid
          /\ SwitchEvent_State'.lightSwitchStatus.command
                = SwitchEvent_State.lightSwitchStatus.command
      ]_vars

\* The supervisor state changes of E2E_SMCheck
E2E_SMStateChanges ==
    { <<"DEINIT", "NODATA">>, <<"NODATA", "INIT">>, <<"INIT", "VALID">>,
      <<"INIT", "INVALID">>, <<"VALID", "INVALID">>, <<"INVALID", "VALID">> }

\* C28: after every supervisor state change made by a tick (Deinit to
\* NoData, NoData to Init, Init to Valid, Init to Invalid, Valid to Invalid,
\* Invalid to Valid) the positive count and the error count are both 0.
C28_CountersClearedOnStateChange ==
    [][(/\ op' = "SwitchEvent_MainFunction"
        /\ <<SwitchEvent_State.e2eSmState.SMState,
             SwitchEvent_State'.e2eSmState.SMState>> \in E2E_SMStateChanges)
       => /\ SwitchEvent_State'.e2eSmState.OkCount = 0
          /\ SwitchEvent_State'.e2eSmState.ErrorCount = 0
      ]_vars

\* C29: a tick that feeds Repeated to the supervisor changes neither its
\* positive count nor its error count and does not move it from Valid to
\* Invalid; a tick that feeds another non-positive status clears the
\* positive count and, unless the supervisor changes state, increments the
\* error count (which saturates at 255).
C29_RepeatedIsNeutral ==
    [][(/\ op' = "SwitchEvent_MainFunction"
        /\ SwitchEvent_State.isInitialized)
       => LET old == SwitchEvent_State.e2eSmState
              new == SwitchEvent_State'.e2eSmState
              status == SwitchEvent_State'.e2eStatus
          IN  /\ status = "REPEATED"
                   => /\ new.OkCount = old.OkCount
                      /\ new.ErrorCount = old.ErrorCount
                      /\ ~(old.SMState = "VALID" /\ new.SMState = "INVALID")
              /\ status \in E2E_ErrorStatus \ {"REPEATED"}
                   => /\ new.OkCount = 0
                      /\ new.SMState = old.SMState
                           => new.ErrorCount
                                = (IF old.ErrorCount < 255
                                   THEN old.ErrorCount + 1 ELSE 255)
      ]_vars

\* C30: a tick whose verdict is WrongCrc, Repeated, WrongSequence or
\* NoNewData leaves the checker's last-valid counter and wait-for-first-data
\* flag as they were; the last-valid counter changes only at a tick that
\* checks a frame with verdict Initial, Ok or OkSomeLost, and after such a
\* tick it is the counter of that frame.
C30_LastValidCounter ==
    [][(/\ op' = "SwitchEvent_MainFunction"
        /\ SwitchEvent_State.isInitialized)
       => LET old == SwitchEvent_State.e2eCheckState
              new == SwitchEvent_State'.e2eCheckState
              verdict == SwitchEvent_State'.e2eStatus
              accepted == /\ SwitchEvent_State.newMessageReceived
                          /\ verdict \in E2E_PositiveStatus
              counter == E2E_P01_GetCounter(SwitchEvent_State.lastMessageData,
                                            E2E_LightSwitchConfig)
          IN  /\ verdict \in {"WRONGCRC", "REPEATED", "WRONGSEQUENCE",
                              "NONEWDATA"}
                   => /\ new.LastValidCounter = old.LastValidCounter
                      /\ new.WaitForFirstData = old.WaitForFirstData
              /\ new.LastValidCounter # old.LastValidCounter => accepted
              /\ accepted => new.LastValidCounter = counter
      ]_vars

\* Reached: a tick has checked a frame whose counter is too far from the
\* last-valid one (WrongSequence) and the last-valid counter is still not
\* the counter of that frame; frames were lost before (OkSomeLost).
C30_Witness ==
    /\ op = "SwitchEvent_MainFunction"
    /\ idleTicks = 0
    /\ SwitchEvent_State.e2eStatus = "WRONGSEQUENCE"
    /\ ~SwitchEvent_State.e2eCheckState.WaitForFirstData
    /\ SwitchEvent_State.e2eCheckState.LostData > 0
    /\ E2E_P01_GetCounter(SwitchEvent_State.lastMessageData,
                          E2E_LightSwitchConfig)
          # SwitchEvent_State.e2eCheckState.LastValidCounter

\* C38: while no frame has passed the CRC check since initialisation (the
\* checker still waits for its first data), the E2E supervisor is not in
\* Valid and the switch report is not marked valid; and the status fed to
\* the supervisor by a tick that ran without a pending frame is never a
\* positive one (Ok, OkSomeLost, Initial).
C38_NoValidBeforeFirstFrame ==
    /\ SwitchEvent_State.e2eCheckState.WaitForFirstData
          => /\ SwitchEvent_State.e2eSmState.SMState # "VALID"
             /\ ~SwitchEvent_State.lightSwitchStatus.isValid
    /\ (idleTicks > 0 /\ fed # <<>>)
          => fed[Len(fed)] \notin E2E_PositiveStatus

(***************************************************************************)
(* Properties of the protector/checker pair (under SpecE2E)                *)
(***************************************************************************)
\* C8: for frames produced one after another by E2E_P01Protect from a fresh
\* protector state and checked at once by a fresh checker state, the first
\* verdict is Initial and every later one is Ok, for any number of frames,
\* also after the sender counter has wrapped from 14 to 0.
C8_InOrderVerdicts ==
    (inOrder /\ framesChecked >= 1)
        => checkState.Status = (IF framesChecked = 1 THEN "INITIAL" ELSE "OK")

\* The verdict that a counter delta d gives
C9_Verdict(d) ==
    IF d = 0 THEN "REPEATED"
    ELSE IF d = 1 THEN "OK"
    ELSE IF d <= E2E_LightSwitchConfig.MaxDeltaCounter THEN "OKSOMELOST"
    ELSE "WRONGSEQUENCE"

\* C9: for a CRC-correct frame that is not the first one, with received
\* counter C_r and last-valid counter C_v both in 0..14, the verdict is the
\* one of d = (C_r - C_v) mod 15: Repeated for 0, Ok for 1, OkSomeLost for
\* 2..MaxDeltaCounter, WrongSequence above (counter 0 after 14 gives Ok).
C9_DeltaModulo15 ==
    [][(/\ op' = "E2E_P01Check"
        /\ ~checkState.WaitForFirstData
        /\ E2E_P01_GetCRC(frameData', E2E_LightSwitchConfig)
              = E2E_P01_FrameCRC(E2E_LightSwitchConfig, frameData',
                                 FLM_CAN_LIGHTSWITCH_MSG_LEN)
        /\ E2E_P01_GetCounter(frameData', E2E_LightSwitchConfig)
              <= E2E_P01_COUNTER_MAX
        /\ checkState.LastValidCounter <= E2E_P01_COUNTER_MAX)
       => checkState'.Status =
             C9_Verdict((E2E_P01_GetCounter(frameData', E2E_LightSwitchConfig)
                         - checkState.LastValidCounter
                         + E2E_P01_COUNTER_WRAP) % E2E_P01_COUNTER_WRAP)
      ]_vars

(***************************************************************************)
(* Properties of the scheduled system (under SpecSYS)                      *)
(***************************************************************************)
\* C34: at the end of every 10 ms band (after Headlight_MainFunction) a frame
\* delivered before the band has been forwarded by Com_MainFunctionRx and
\* checked by the SwitchReceiver in this band, the FlmController holds the
\* report and the status the SwitchReceiver published in this band, and the
\* OutputMonitor has requested the command the FlmController issued in this
\* band and driven the lines accordingly; and whenever the aggregator has
\* run, what it read is what the getters returned when the iteration
\* started, that is at the end of an earlier band.
C34_BandOrder ==
    /\ op = "Headlight_MainFunction"
          => /\ delivered # <<>>
                   => /\ ~Com_IpduData.newData
                      /\ ~SwitchEvent_State.newMessageReceived
                      /\ SwitchEvent_State.lastMessageData = delivered
                      /\ idleTicks = 0
             /\ FLM_State.lightSwitch = SwitchEvent_State.lightSwitchStatus
             /\ FLM_State.e2eStatus = SwitchEvent_State.e2eStatus
             /\ FLM_State.ambientLight = LightRequest_State.ambientLight
             /\ Headlight_State.requestedCommand = FLM_State.headlightCommand
             /\ Headlight_State.faultStatus # "SHORT"
                   => <<Dio_Levels.lowBeam, Dio_Levels.highBeam>>
                         = C33_Lines(FLM_State.headlightCommand)
             /\ SwitchEvent_SystemTime = FLM_SystemTime
             /\ Headlight_SystemTime = FLM_SystemTime
    /\ op = "SafetyMonitor_MainFunction" => published = tickStart

\* Reached: the end of a band before which a frame with command LowBeam was
\* delivered while the published report still carried Off; the report, the
\* controller's command and the low-beam line have all followed in this band
C34_Witness ==
    /\ op = "Headlight_MainFunction"
    /\ delivered # <<>>
    /\ delivered[COM_LIGHTSWITCH_CMD_BYTE + 1] = LIGHT_SWITCH_LOW_BEAM
    /\ tickStart.ls.command = LIGHT_SWITCH_OFF
    /\ SwitchEvent_State.lightSwitchStatus.isValid
    /\ SwitchEvent_State.lightSwitchStatus.command = LIGHT_SWITCH_LOW_BEAM
    /\ FLM_State.currentState = "NORMAL"
    /\ FLM_State.headlightCommand = "LOW_BEAM"
    /\ Dio_Levels.lowBeam

\* The surroundings of System_Init have not changed: ambient ADC value 2000
\* and a valid frame with command Off before every 10 ms tick so far
C35_DayCruise == simPhase = "initial"

\* The controller has completed its second 10 ms tick
C35_AfterTick2 == FLM_SystemTime >= 2 * FLM_MAIN_FUNCTION_PERIOD_MS

\* The 50 ticks of the scenario are over
C35_AtEnd ==
    /\ System_TickMs = MaxSysTicks * FLM_MAIN_FUNCTION_PERIOD_MS
    /\ sysPc = "System_SimulateInputs"

\* C35: in the day cruise (ambient 2000, a valid Off frame before every 10 ms
\* tick, 50 ticks from initialisation) the controller is in Normal from the
\* end of its second tick on, the headlight command is Off throughout, safe
\* state is never latched and the global status is Ok at the end.
C35_DayCruiseScenario ==
    C35_DayCruise
       => /\ C35_AfterTick2 => FLM_State.currentState = "NORMAL"
          /\ FLM_State.headlightCommand = "OFF"
          /\ Headlight_State.currentCommand = "OFF"
          /\ ~SafetyMonitor_State.inSafeState
          /\ C35_AtEnd => SafetyMonitor_State.globalStatus = "OK"

\* The parts of C35 other than the deadline of Normal
C35_Rest ==
    C35_DayCruise
       => /\ C35_AtEnd => FLM_State.currentState = "NORMAL"
          /\ FLM_State.headlightCommand = "OFF"
          /\ Headlight_State.currentCommand = "OFF"
          /\ ~SafetyMonitor_State.inSafeState
          /\ C35_AtEnd => SafetyMonitor_State.globalStatus = "OK"

\* C37: at the end of every 10 ms band in which the aggregator has latched
\* safe state and the FlmController has run a tick in Safe (both have then
\* derived their command from the ambient reading published before the
\* band), the command the FlmController issues and the OutputMonitor requests
\* is the aggregator's safe-state command.
C37_SafeCommandsAgree ==
    (/\ op = "Headlight_MainFunction"
     /\ SafetyMonitor_State.inSafeState
     /\ FLM_State.previousState = "SAFE"
     /\ FLM_State.currentState = "SAFE")
       => /\ FLM_State.headlightCommand
                = SafetyMonitor_State.safeStateCommand
          /\ Headlight_State.requestedCommand
                = SafetyMonitor_State.safeStateCommand


\* The FlmController is in Safe without the external trigger (by its own
\* Degraded timeout) and the aggregator has not latched safe state
C40_SafeUnlatched ==
    /\ FLM_State.currentState = "SAFE"
    /\ ~FLM_ExternalSafeStateTrigger
    /\ ~SafetyMonitor_State.inSafeState

\* C40: the FlmController is never left in Safe by its own Degraded timeout
\* with the aggregator unlatched: the aggregator latches safe state, and
\* reports the global status SafeState from then on, before the controller
\* runs a tick later than the FTTI (200 ms) after the tick in which it
\* entered Degraded.
C40_AggregatorFollows ==
    /\ C40_SafeUnlatched
          => Sub32(FLM_State.currentTime, degradedSince)
                <= SAFETYMONITOR_FTTI_MS
    /\ SafetyMonitor_State.inSafeState
          => SafetyMonitor_State.globalStatus = "SAFE_STATE"

\* Reached: the aggregator latches safe state (reason Timeout, the FTTI
\* having expired) in a 5 ms task that finds the controller in Safe by its
\* own timeout
C40_Witness ==
    /\ op = "SafetyMonitor_MainFunction"
    /\ SafetyMonitor_State.inSafeState
    /\ SafetyMonitor_State.globalStatus = "SAFE_STATE"
    /\ SafetyMonitor_State.safeStateEntryTime = SafetyMonitor_State.currentTime
    /\ SafetyMonitor_State.safeStateReason = "TIMEOUT"
    /\ FLM_State.currentState = "SAFE"
    /\ FLM_State.previousState = "SAFE"
    /\ degradedSince > 0

(***************************************************************************)
(* Properties of the E2E calls with arbitrary arguments (under SpecE2EArg) *)
(***************************************************************************)
\* The last call had a null configuration or state pointer
C36_NullArgument ==
    /\ lastCall.fn # "none"
    /\ \/ lastCall.config.null
       \/ lastCall.state.null
       \/ /\ lastCall.fn = "E2E_P01Protect"
          /\ lastCall.data.null \/ lastCall.length = 0

\* The last call had a configuration with an offset outside the frame
C36_OutOfRange ==
    /\ lastCall.fn # "none"
    /\ ~lastCall.config.null
    /\ E2eConfigOutOfRange(lastCall.config.at, FLM_CAN_LIGHTSWITCH_MSG_LEN)

\* The last call returned a failure value and changed neither the state nor
\* the buffer
C36_Rejected ==
    /\ IF lastCall.fn = "E2E_P01Protect"
       THEN lastCall.ret = "E_NOT_OK"
       ELSE lastCall.ret \notin E2E_PositiveStatus
    /\ lastCall.stateAfter = lastCall.state
    /\ lastCall.dataAfter = lastCall.data

\* C36: a call of E2E_P01Protect or E2E_P01Check with a null configuration or
\* state pointer, of E2E_P01Protect with a null data pointer or length 0, or
\* of either with a configuration whose counter or CRC offset lies outside
\* the frame, returns a failure value and leaves state and buffer unchanged.
C36_ContractViolationsRejected ==
    (C36_NullArgument \/ C36_OutOfRange) => C36_Rejected

\* The part of C36 about null pointers and length 0
C36_NullRejected == C36_NullArgument => C36_Rejected

=============================================================================
